---- MODULE Spec2Model ----
(***************************************************************************)
(* A model of the `now dev` development server (DevServer in               *)
(* packages/now-cli/src/util/dev/server.ts).                               *)
(*                                                                         *)
(* Every `await` of the source is a step boundary: the code between two    *)
(* awaits is one atomic action, and other tasks (requests, filesystem      *)
(* passes, build completions, timers) may run between two actions.         *)
(*                                                                         *)
(* Three groups of variables model the three subsystems, each checked      *)
(* under its own specification:                                            *)
(*   Spec / SpecInval : the build scheduler (triggerBuild, executeBuild)   *)
(*                      and the builder-update path                        *)
(*   SpecGate         : registry reconciliation (updateBuildMatches) and   *)
(*                      the blocking-build gate                            *)
(*   SpecFs           : the filesystem-event aggregator                    *)
(***************************************************************************)
EXTENDS Integers, Sequences, FiniteSets, TLC

(***************************************************************************)
(* Bounds of the model.                                                    *)
(***************************************************************************)
\* number of concurrent triggerBuild callers (requests, filesystem rebuilds)
NumTasks == 2
\* number of triggerBuild calls
MaxTriggers == 3
\* number of builder-module updates (SpecInval)
MaxUpdates == 1
\* number of callers of updateBuildMatches (SpecGate)
NumCallers == 3
\* number of overlapping handleFilesystemEvents calls (SpecFs)
NumPasses == 2
\* number of changes made to the disk (SpecFs)
MaxDiskEvents == 3
\* number of stop() calls (SpecStop, SpecShutdown)
NumStops == 2
\* number of requests being served (SpecServe)
NumRequests == 2
\* longest request path, in characters (SpecNormalize)
MaxPathLen == 5
\* number of concurrent triggerBuild calls over several matches (SpecKeys)
NumKeyedCalls == 2
\* number of getNowConfig calls and of edits of now.json (SpecConfig)
NumConfigCalls == 3
MaxConfigEdits == 2
\* updateBuildMatches runs, changes of a `use`, builder updates (SpecMatches)
NumRuns == 2
MaxUseChanges == 2
MaxInvalidations == 1
\* number of ports found in use by the bind loop (SpecStart)
MaxBusyPorts == 2

(***************************************************************************)
(* Program constants.                                                      *)
(***************************************************************************)
\* ms('2s'), in seconds
Cooldown == 2
\* this.watchAggregationTimeout = 500 (ms), in units of 250 ms
watchAggregationTimeout == 2

NULL == "null"

Tasks == 1..NumTasks

\* The one entrypoint of the scheduler model, and the request paths its
\* builder serves (a builder with shouldServe, whose results are keyed by
\* request path).
Src == "m"
RequestPaths == {"x", "y"}

VARIABLES
  \* ---- build scheduler ----
  registry,          \* this.buildMatches.get(Src): index into matches, 0 = none
  matches,           \* the BuildMatch objects ever created for Src
  moduleVersion,     \* version of the builder module in the require cache
  tasks,             \* the callers of triggerBuild and where each one is
  builds,            \* the promises of the executeBuild invocations
  inProgressBuilds,  \* this.inProgressBuilds: build key -> promise, 0 = none
  sinceTrigger,      \* history: per request path, the time since the last
                     \* triggerBuild call that chose to build (Never: none)
  triggers,          \* history: the number of triggerBuild calls so far
  thrown,            \* history: the request paths for which a triggerBuild
                     \* call has ended with the build's exception
  \* ---- registry reconciliation and the blocking-build gate ----
  entryFiles,        \* the entrypoints among this.files
  buildMatches,      \* this.buildMatches: the entrypoints that have a match
  buildMatchesOrder, \* the iteration order of this.buildMatches
  blockingBuilds,    \* the blocking builds updateBuildMatches has started
  signals,           \* the shared completion signals ever installed
  blockingBuildsPromise,  \* this.blockingBuildsPromise: a signal, 0 = null
  callers,           \* the callers of updateBuildMatches and their position
  \* ---- filesystem-event aggregator ----
  disk,              \* the watched paths present on disk
  files,             \* this.files: the paths in the file index
  watchAggregationEvents,  \* this.watchAggregationEvents
  watchAggregationId,      \* this.watchAggregationId: TRUE = timer armed
  passes,            \* the handleFilesystemEvents calls and their position
  diskEvents,        \* history: the number of changes made to the disk
  timerLeft,         \* the time left before the armed debounce timer is due
  handed,            \* history: the events handed to handleFilesystemEvents,
                     \* by arrival number
  \* ---- shutdown ----
  stopping,          \* this.stopping
  stops,             \* the stop() calls and their position
  updateBuildersPromise,  \* this.updateBuildersPromise: TRUE = pending
  serverCloses,      \* history: the number of close(this.server) calls
  watcherCloses,     \* history: the number of this.watcher.close() calls
  builderShutdowns,  \* history: per entrypoint, the number of
                     \* shutdownBuilder calls stop() made for its match
  \* ---- request serving ----
  requests,          \* the requests and the position of each one in
                     \* serveProjectAsNowV2
  prologue,          \* one request through the first lines of
                     \* serveProjectAsNowV2, with its method and URL
  keyed,             \* the in-progress table of triggerBuild over several
                     \* matches, with the calls and the builds under way
  loader,            \* the configuration: now.json on disk, the config
                     \* objects, the cache, and the getNowConfig calls
  reconciler,        \* the build matches as objects: the `use` of each,
                     \* which are registered, which were shut down
  \* ---- start ----
  startPc,           \* the position of the start() call
  listenSpec,        \* listenSpec[0]: a port number or a named socket
  listenAttempts,    \* history: what listen() was called with, and how each
                     \* call ended
  bootIndex,         \* the index of the initial build start() is awaiting
  bootMatches,       \* this.buildMatches during start: entrypoint -> the
                     \* generation of its match, 0 = none
  bootBuilds,        \* the executeBuild calls that are running
  updaterPc          \* the position of the updateBuilders background task

schedVars == <<registry, matches, moduleVersion, tasks, builds,
               inProgressBuilds, sinceTrigger, triggers, thrown>>

gateVars == <<entryFiles, buildMatches, buildMatchesOrder, blockingBuilds,
              signals, blockingBuildsPromise, callers>>

fsVars == <<disk, files, watchAggregationEvents, watchAggregationId, passes,
            diskEvents, timerLeft, handed>>

stopVars == <<stopping, stops, updateBuildersPromise, serverCloses,
              watcherCloses, builderShutdowns>>

serveVars == <<requests, prologue, keyed, loader, reconciler>>

startVars == <<startPc, listenSpec, listenAttempts, bootIndex, bootMatches,
               bootBuilds, updaterPc>>

vars == <<schedVars, gateVars, fsVars, stopVars, serveVars, startVars>>

(***************************************************************************)
(* The build scheduler.                                                    *)
(***************************************************************************)

\* const buildKey = requestPath === null ? match.src : `${match.src}-${requestPath}`
BuildKey(src, requestPath) ==
  IF requestPath = NULL THEN src ELSE src \o "-" \o requestPath

BuildKeys == {BuildKey(Src, p) : p \in RequestPaths}

\* Time is kept as ages, in seconds: sinceBuild is Date.now() -
\* match.buildTimestamp.  The code only compares an age with the cooldown,
\* so an age stops growing once it is beyond it.
MaxAge == Cooldown + 1
Never == MaxAge + 1
Older(age) == IF age < MaxAge THEN age + 1 ELSE age

\* A fresh BuildMatch bound to the module version v: never built
\* (buildTimestamp 0, long ago).
NewMatch(v) ==
  [modVer |-> v, sinceBuild |-> MaxAge, buildOutput |-> {}, buildResults |-> {}]

\* The output of the build result for request path p: one asset, named p.
ResultOutput(p) == {p}

\* gap is history: for a call that does not build, the time between the call
\* and the previous triggerBuild call for the same path that chose to build.
IdleTask ==
  [pc |-> "idle", kind |-> "req", path |-> "x", match |-> 0, awaiting |-> 0,
   gap |-> Never]

\* A promise nobody refers to any more.
NoBuild == [status |-> "none", path |-> "x", match |-> 0]

InitSched ==
  /\ registry = 1
  /\ matches = <<NewMatch(0)>>
  /\ moduleVersion = 0
  /\ tasks = [t \in Tasks |-> IdleTask]
  /\ builds = [b \in Tasks |-> NoBuild]
  /\ inProgressBuilds = [k \in BuildKeys |-> 0]
  /\ sinceTrigger = [p \in RequestPaths |-> Never]
  /\ triggers = 0
  /\ thrown = {}

\* One second passes.
Tick ==
  /\ matches' = [m \in DOMAIN matches |->
       [matches[m] EXCEPT !.sinceBuild = Older(@)]]
  /\ sinceTrigger' = [p \in RequestPaths |-> Older(sinceTrigger[p])]
  /\ UNCHANGED <<registry, moduleVersion, tasks, builds, inProgressBuilds,
                 triggers, thrown, gateVars, fsVars, stopVars, serveVars, startVars>>

\* findAsset(match, requestPath): the asset is in the match's buildOutput.
findAsset(m, p) == p \in matches[m].buildOutput

\* let buildPromise = this.inProgressBuilds.get(buildKey); if (buildPromise)
HasInProgressNever(key) == FALSE
HasInProgress(key) == inProgressBuilds[key] # 0

\* Date.now() - match.buildTimestamp < ms('2s')
InCooldownNever(m) == FALSE
InCooldownInclusive(m) == matches[m].sinceBuild <= Cooldown
InCooldown(m) == matches[m].sinceBuild < Cooldown

\* The callers of triggerBuild.  A request (kind "req") has found its match
\* with findBuildMatch and calls triggerBuild when the asset is missing or
\* the request carries no-cache; it passes no previousBuildResult.  A
\* filesystem pass (kind "fs") calls it for a build result of the match whose
\* watch list matches the batch, and passes that result.
\* (Idle callers are interchangeable: the lowest one starts.)
CanTrigger(t, kind, p, noCache) ==
  /\ tasks[t].pc = "idle"
  /\ triggers < MaxTriggers
  /\ \A u \in Tasks : u < t => tasks[u].pc # "idle"
  /\ registry # 0
  /\ kind = "req" => (noCache \/ ~findAsset(registry, p))
  /\ kind = "fs" => (~noCache /\ p \in matches[registry].buildResults)

\* triggerBuild up to its first await: the choice among the three branches
\* (de-duplicate, skip, build).
TriggerBuild(t, kind, p, noCache) ==
  LET key == BuildKey(Src, p)
      m   == registry
  IN
  /\ CanTrigger(t, kind, p, noCache)
  /\ IF HasInProgress(key)
       THEN /\ tasks' = [tasks EXCEPT ![t] =
                 [@ EXCEPT !.pc = "waitDedup", !.path = p, !.match = m,
                           !.awaiting = inProgressBuilds[key],
                           !.gap = sinceTrigger[p]]]
            /\ UNCHANGED sinceTrigger
       ELSE IF InCooldown(m)
         THEN /\ tasks' = [tasks EXCEPT ![t] =
                   [@ EXCEPT !.pc = "waitSkip", !.path = p, !.match = m,
                             !.kind = kind, !.gap = sinceTrigger[p]]]
              /\ UNCHANGED sinceTrigger
         ELSE /\ tasks' = [tasks EXCEPT ![t] =
                   [@ EXCEPT !.pc = "config", !.path = p, !.match = m,
                             !.kind = kind]]
              /\ sinceTrigger' = [sinceTrigger EXCEPT ![p] = 0]
  /\ triggers' = triggers + 1
  /\ UNCHANGED <<registry, matches, moduleVersion, builds, inProgressBuilds,
                 thrown, gateVars, fsVars, stopVars, serveVars, startVars>>

\* if (previousBuildResult) { delete match.buildOutput[name] for its output }
\* Only the filesystem pass hands triggerBuild a previousBuildResult.
TearDown(t) ==
  IF tasks[t].kind = "fs"
    THEN [matches EXCEPT ![tasks[t].match].buildOutput =
             @ \ ResultOutput(tasks[t].path)]
    ELSE matches

\* The promise executeBuild returns: the lowest one nobody refers to.
FreshBuild == CHOOSE b \in Tasks :
  /\ builds[b].status = "none"
  /\ \A c \in Tasks : c < b => builds[c].status # "none"

\* The else branch after `await this.getNowConfig()`: tear down, call
\* executeBuild and register its promise.  (previousBuildResult is not read
\* again after the tear-down, so the caller's kind is dropped here.)
StartBuild(t) ==
  LET key == BuildKey(Src, tasks[t].path)
      id  == FreshBuild
  IN
  /\ tasks[t].pc = "config"
  /\ matches' = TearDown(t)
  /\ builds' = [builds EXCEPT ![id] =
       [status |-> "running", path |-> tasks[t].path, match |-> tasks[t].match]]
  /\ inProgressBuilds' = [inProgressBuilds EXCEPT ![key] = id]
  /\ tasks' = [tasks EXCEPT ![t] =
       [@ EXCEPT !.pc = "waitOwn", !.kind = "req", !.awaiting = id]]
  /\ UNCHANGED <<registry, moduleVersion, sinceTrigger, triggers,
                 thrown, gateVars, fsVars, stopVars, serveVars, startVars>>

\* executeBuild resolves: the result and its outputs are published on the
\* match the build was given, then buildTimestamp is set.
BuildResolve(b) ==
  /\ builds[b].status = "running"
  /\ matches' = [matches EXCEPT ![builds[b].match] =
       [@ EXCEPT !.buildResults = @ \cup {builds[b].path},
                 !.buildOutput = @ \cup ResultOutput(builds[b].path),
                 !.sinceBuild = 0]]
  /\ builds' = [builds EXCEPT ![b].status = "resolved"]
  /\ UNCHANGED <<registry, moduleVersion, tasks, inProgressBuilds,
                 sinceTrigger, triggers,
                 thrown, gateVars, fsVars, stopVars, serveVars, startVars>>

\* executeBuild rejects: the builder threw; nothing is published.
BuildReject(b) ==
  /\ builds[b].status = "running"
  /\ builds' = [builds EXCEPT ![b].status = "rejected"]
  /\ UNCHANGED <<registry, matches, moduleVersion, tasks, inProgressBuilds,
                 sinceTrigger, triggers,
                 thrown, gateVars, fsVars, stopVars, serveVars, startVars>>

\* `await buildPromise` may continue: the promise is settled, or there is
\* none (await undefined).
SettledAlways(b) == TRUE
Settled(b) == IF b = 0 THEN TRUE ELSE builds[b].status # "running"

\* this.inProgressBuilds.delete(buildKey)
DeleteInProgressNever(key) == inProgressBuilds
DeleteInProgress(key) == [inProgressBuilds EXCEPT ![key] = 0]

\* The awaited promise is rejected: `await buildPromise` throws in the call.
Threw(t) ==
  /\ tasks[t].awaiting # 0
  /\ builds[tasks[t].awaiting].status = "rejected"

\* try { await buildPromise } finally { this.inProgressBuilds.delete(buildKey) }
\* The call then returns, or throws what the build threw.  A promise that
\* no caller awaits any more is dropped.
Finally(t) ==
  LET key == BuildKey(Src, tasks[t].path)
      b   == tasks[t].awaiting
  IN
  /\ tasks[t].pc \in {"waitDedup", "waitSkip", "waitOwn"}
  /\ Settled(b)
  /\ inProgressBuilds' = DeleteInProgress(key)
  /\ tasks' = [tasks EXCEPT ![t] = IdleTask]
  /\ builds' = IF b # 0 /\ \A u \in Tasks \ {t} : tasks[u].awaiting # b
                 THEN [builds EXCEPT ![b] = NoBuild]
                 ELSE builds
  /\ thrown' = IF Threw(t) THEN thrown \cup {tasks[t].path} ELSE thrown
  /\ UNCHANGED <<registry, matches, moduleVersion, sinceTrigger, triggers,
                 gateVars, fsVars, stopVars, serveVars, startVars>>

\* invalidateBuildMatches for an update of the module of Src's builder: the
\* require cache is purged and the match is shut down and deleted; the
\* method then awaits updateBuildMatches.
InvalidateBuildMatches ==
  /\ moduleVersion < MaxUpdates
  /\ registry # 0
  /\ moduleVersion' = moduleVersion + 1
  /\ registry' = 0
  /\ UNCHANGED <<matches, tasks, builds, inProgressBuilds,
                 sinceTrigger, triggers,
                 thrown, gateVars, fsVars, stopVars, serveVars, startVars>>

\* updateBuildMatches adds the match again, bound to the updated module.
ReAddMatch ==
  /\ registry = 0
  /\ matches' = Append(matches, NewMatch(moduleVersion))
  /\ registry' = Len(matches) + 1
  /\ UNCHANGED <<moduleVersion, tasks, builds, inProgressBuilds,
                 sinceTrigger, triggers,
                 thrown, gateVars, fsVars, stopVars, serveVars, startVars>>

(***************************************************************************)
(* Registry reconciliation and the blocking-build gate.                    *)
(***************************************************************************)

\* The entrypoints a project may contain.  Their builder has no shouldServe.
Entrypoints == {"a", "b"}
WithShouldServe == {}

Callers == 1..NumCallers

\* The `use` of the build that matches each entrypoint, and the builds in
\* the order nowConfig.builds lists them (the order of the matcher's result).
Use == [a |-> "@now/node", b |-> "@now/static-build"]
ConfigOrder == <<"b", "a">>

\* use.startsWith('@now/static-build')
StaticBuildUses == {"@now/static-build", "@now/static-build@canary"}
startsWithStaticBuild(use) == use \in StaticBuildUses

sortBuildersNone(buildA, buildB) == 0
sortBuilders(buildA, buildB) ==
  IF startsWithStaticBuild(Use[buildA]) THEN 1
  ELSE IF startsWithStaticBuild(Use[buildB]) THEN 0 - 1
  ELSE 0

\* [...entries].sort(compare): a stable sort; each entry moves left past the
\* entries that compare greater than it.
RECURSIVE InsertEntry(_, _)
InsertEntry(sorted, x) ==
  IF sorted = <<>> THEN <<x>>
  ELSE LET n == Len(sorted)
       IN IF sortBuilders(sorted[n], x) > 0
            THEN Append(InsertEntry(SubSeq(sorted, 1, n - 1), x), sorted[n])
            ELSE Append(sorted, x)

RECURSIVE SortEntries(_)
SortEntries(entries) ==
  IF entries = <<>> THEN <<>>
  ELSE LET n == Len(entries)
       IN InsertEntry(SortEntries(SubSeq(entries, 1, n - 1)), entries[n])

\* this.buildMatches.set(match.src, match) for the added matches, in the
\* order of the matcher's result: a new key goes to the end of the map.
SetKeys(order, added) ==
  order \o SelectSeq(ConfigOrder, LAMBDA e : e \in added)

\* typeof builder.shouldServe !== 'function'
needsBlockingBuild(e) == e \notin WithShouldServe

\* The response of a request: nothing sent yet, or the 404 of a server that
\* is stopping.
NoResponse == [statusCode |-> 0, connection |-> "keep-alive"]
Closing404 == [statusCode |-> 404, connection |-> "close"]

NewCaller ==
  [pc |-> "new", kind |-> "req", snapshot |-> {}, awaiting |-> 0,
   response |-> NoResponse]

\* The state once start() has returned, for a project that had no entrypoint.
InitGate ==
  /\ entryFiles = {}
  /\ buildMatches = {}
  /\ buildMatchesOrder = <<>>
  /\ blockingBuilds = <<>>
  /\ signals = <<>>
  /\ blockingBuildsPromise = 0
  /\ callers = [c \in Callers |-> NewCaller]

\* Callers that have not started are interchangeable: the lowest one starts.
IsNext(c) ==
  /\ callers[c].pc = "new"
  /\ \A d \in Callers : d < c => callers[d].pc # "new"

\* if (this.stopping) in devServerHandler
HandlerStoppingNever == FALSE
HandlerStopping == stopping

\* server.close() has called back: every connection has ended and no
\* request arrives any more.
ServerClosed == \E s \in DOMAIN stops : stops[s].pc = "resolved"

\* devServerHandler: a request arrives.  If the server is stopping it is
\* answered with a 404 and `Connection: close`; otherwise the handler awaits
\* getNowConfig().
StartRequest(c) ==
  /\ IsNext(c)
  /\ ~ServerClosed
  /\ callers' = [callers EXCEPT ![c] =
       IF HandlerStopping
         THEN [@ EXCEPT !.pc = "closed", !.kind = "req",
                        !.response = Closing404]
         ELSE [@ EXCEPT !.pc = "update", !.kind = "req"]]
  /\ UNCHANGED <<entryFiles, buildMatches, buildMatchesOrder, blockingBuilds,
                 signals, blockingBuildsPromise, schedVars, fsVars, stopVars, serveVars, startVars>>

\* handleFilesystemEvents: the event loop of a pass has created or deleted
\* the entrypoint e in this.files; the pass awaits getNowConfig(false).
StartFsPass(c, e) ==
  /\ IsNext(c)
  /\ entryFiles' = IF e \in entryFiles THEN entryFiles \ {e}
                                       ELSE entryFiles \cup {e}
  /\ callers' = [callers EXCEPT ![c] = [@ EXCEPT !.pc = "update", !.kind = "fs"]]
  /\ UNCHANGED <<buildMatches, buildMatchesOrder, blockingBuilds, signals,
                 blockingBuildsPromise, schedVars, fsVars, stopVars, serveVars, startVars>>

\* updateBuildMatches up to `await getBuildMatches(...)`: the file list is
\* taken from this.files when the call is made; the matcher yields one match
\* per entrypoint in it.
Snapshot(c) ==
  /\ callers[c].pc = "update"
  /\ callers' = [callers EXCEPT ![c] =
       [@ EXCEPT !.pc = "matched", !.snapshot = entryFiles]]
  /\ UNCHANGED <<entryFiles, buildMatches, buildMatchesOrder, blockingBuilds,
                 signals, blockingBuildsPromise, schedVars, fsVars, stopVars, serveVars, startVars>>

\* this.buildMatches.delete(src) for every key outside the expected set: the
\* remaining keys keep their order.
DeleteKeys(order, expected) == SelectSeq(order, LAMBDA e : e \in expected)

\* The delete loop, up to `await Promise.all(ops)`.
DeleteLoop(c) ==
  /\ callers[c].pc = "matched"
  /\ buildMatches' = buildMatches \cap callers[c].snapshot
  /\ buildMatchesOrder' = DeleteKeys(buildMatchesOrder, callers[c].snapshot)
  /\ callers' = [callers EXCEPT ![c].pc = "deleted"]
  /\ UNCHANGED <<entryFiles, blockingBuilds, signals,
                 blockingBuildsPromise, schedVars, fsVars, stopVars, serveVars, startVars>>

\* The add loop and the installation of the gate: every expected entrypoint
\* without a match gets one, and executeBuild is called for it when its
\* builder needs a blocking build; if any was started, a fresh signal over
\* these builds replaces this.blockingBuildsPromise.
Install(started) ==
  IF started # {} THEN Len(signals) + 1 ELSE blockingBuildsPromise

AddLoop(c) ==
  LET added   == callers[c].snapshot \ buildMatches
      n       == Cardinality({e \in added : needsBlockingBuild(e)})
      started == (Len(blockingBuilds) + 1)..(Len(blockingBuilds) + n)
  IN
  /\ callers[c].pc = "deleted"
  /\ buildMatches' = buildMatches \cup added
  /\ buildMatchesOrder' = SortEntries(SetKeys(buildMatchesOrder, added))
  /\ blockingBuilds' = blockingBuilds \o [i \in 1..n |-> "running"]
  /\ signals' = IF started # {}
                  THEN Append(signals, [builds |-> started, done |-> FALSE])
                  ELSE signals
  /\ blockingBuildsPromise' = Install(started)
  /\ callers' = [callers EXCEPT ![c].pc =
       IF callers[c].kind = "req" THEN "updated" ELSE "done"]
  /\ UNCHANGED <<entryFiles, schedVars, fsVars, stopVars, serveVars, startVars>>

\* Promise.all(blockingBuilds).then(cleanup).catch(cleanup): the signal s
\* completes when build b settles with the given outcome, if b is the last
\* of its builds to resolve or the first to reject.
Completes(s, b, outcome) ==
  /\ ~signals[s].done
  /\ b \in signals[s].builds
  /\ \/ outcome = "rejected"
     \/ \A x \in signals[s].builds \ {b} : blockingBuilds[x] = "resolved"

\* const cleanup = () => { this.blockingBuildsPromise = null; }
Cleanup(s) == 0

\* A blocking build settles; the signals it completes run their cleanup.
SettleBlocking(b, outcome) ==
  LET completed == {s \in DOMAIN signals : Completes(s, b, outcome)}
  IN
  /\ blockingBuilds[b] = "running"
  /\ blockingBuilds' = [blockingBuilds EXCEPT ![b] = outcome]
  /\ signals' = [s \in DOMAIN signals |->
       IF s \in completed THEN [signals[s] EXCEPT !.done = TRUE]
                          ELSE signals[s]]
  /\ blockingBuildsPromise' =
       IF completed = {} THEN blockingBuildsPromise
       ELSE Cleanup(CHOOSE s \in completed : TRUE)
  /\ UNCHANGED <<entryFiles, buildMatches, buildMatchesOrder, callers,
                 schedVars, fsVars, stopVars, serveVars, startVars>>

BlockingResolve(b) == SettleBlocking(b, "resolved")
BlockingReject(b) == SettleBlocking(b, "rejected")

\* serveProjectAsNowV2 after `await this.updateBuildMatches(nowConfig)`:
\* if (this.blockingBuildsPromise) await it; otherwise go on to devRouter.
CheckGate(c) ==
  /\ callers[c].pc = "updated"
  /\ callers' = [callers EXCEPT ![c] =
       IF blockingBuildsPromise # 0
         THEN [@ EXCEPT !.pc = "waitGate", !.awaiting = blockingBuildsPromise]
         ELSE [@ EXCEPT !.pc = "routing"]]
  /\ UNCHANGED <<entryFiles, buildMatches, buildMatchesOrder, blockingBuilds,
                 signals, blockingBuildsPromise, schedVars, fsVars, stopVars, serveVars, startVars>>

\* The awaited signal has completed: the request goes on to devRouter.
GateOpen(c) ==
  /\ callers[c].pc = "waitGate"
  /\ signals[callers[c].awaiting].done
  /\ callers' = [callers EXCEPT ![c].pc = "routing"]
  /\ UNCHANGED <<entryFiles, buildMatches, buildMatchesOrder, blockingBuilds,
                 signals, blockingBuildsPromise, schedVars, fsVars, stopVars, serveVars, startVars>>

NextGate ==
  \/ \E c \in Callers : StartRequest(c)
  \/ \E c \in Callers, e \in Entrypoints : StartFsPass(c, e)
  \/ \E c \in Callers : Snapshot(c)
  \/ \E c \in Callers : DeleteLoop(c)
  \/ \E c \in Callers : AddLoop(c)
  \/ \E b \in DOMAIN blockingBuilds : BlockingResolve(b)
  \/ \E b \in DOMAIN blockingBuilds : BlockingReject(b)
  \/ \E c \in Callers : CheckGate(c)
  \/ \E c \in Callers : GateOpen(c)

(***************************************************************************)
(* The filesystem-event aggregator.                                        *)
(***************************************************************************)

\* The watched paths: those the ignore filter lets through (the watcher
\* reports nothing for the others) and that lie under no distPath.  The
\* files under a distPath are DistFiles.
Paths == {"p", "q"}

Passes == 1..NumPasses

\* queue is the part of needsRebuild still to be handled; called (the build
\* results triggerBuild was called for, in call order) and served (the
\* results shouldServe returned true for) are history.
IdlePass ==
  [pc |-> "idle", events |-> <<>>, changed |-> {}, removed |-> {},
   statOk |-> FALSE, queue |-> <<>>, called |-> <<>>, served |-> {}]

\* The state once start() has returned, for a project that held the file p:
\* the index is the scan of the disk.
InitFs ==
  /\ disk = {"p"}
  /\ files = disk
  /\ watchAggregationEvents = <<>>
  /\ watchAggregationId = FALSE
  /\ passes = [k \in Passes |-> IdlePass]
  /\ diskEvents = 0
  /\ timerLeft = 0
  /\ handed = <<>>

\* if (this.watchAggregationId === null) this.watchAggregationId =
\* setTimeout(..., this.watchAggregationTimeout): the time left on the timer
\* after an event is enqueued.
ArmTimerAlways(armed, left) == watchAggregationTimeout
ArmTimer(armed, left) == IF armed THEN left ELSE watchAggregationTimeout

\* enqueueFsEvent(type, path): append; arm the timer if it is not armed.
\* A change on disk makes the watcher report the event.  (seq, the arrival
\* number of the event, is history.)
DiskEvent(type, p) ==
  /\ diskEvents < MaxDiskEvents
  /\ diskEvents' = diskEvents + 1
  /\ CASE type = "add"    -> p \notin disk /\ disk' = disk \cup {p}
       [] type = "change" -> p \in disk /\ disk' = disk
       [] type = "unlink" -> p \in disk /\ disk' = disk \ {p}
  /\ watchAggregationEvents' =
       Append(watchAggregationEvents,
              [type |-> type, path |-> p, seq |-> diskEvents + 1])
  /\ watchAggregationId' = TRUE
  /\ timerLeft' = ArmTimer(watchAggregationId, timerLeft)
  /\ UNCHANGED <<files, passes, handed, schedVars, gateVars, stopVars, serveVars, startVars>>

\* A quarter of a second passes on the armed timer.
TickFs ==
  /\ watchAggregationId
  /\ timerLeft > 0
  /\ timerLeft' = timerLeft - 1
  /\ UNCHANGED <<disk, files, watchAggregationEvents, watchAggregationId,
                 passes, diskEvents, handed, schedVars, gateVars, stopVars, serveVars, startVars>>

\* A build writes, rewrites or removes a file under its distPath, which the
\* watcher reports like any other event.
DistEvent(type, p) ==
  /\ diskEvents < MaxDiskEvents
  /\ diskEvents' = diskEvents + 1
  /\ watchAggregationEvents' =
       Append(watchAggregationEvents,
              [type |-> type, path |-> p, seq |-> diskEvents + 1])
  /\ watchAggregationId' = TRUE
  /\ timerLeft' = ArmTimer(watchAggregationId, timerLeft)
  /\ UNCHANGED <<disk, files, passes, handed, schedVars, gateVars, stopVars,
                 serveVars, startVars>>

\* fileChanged(name, changed, removed)
fileChanged(name, st) ==
  [st EXCEPT !.changed = @ \cup {name}, !.removed = @ \ {name}]

\* fileRemoved(name, files, changed, removed)
fileRemoved(name, st) ==
  [st EXCEPT !.files = @ \ {name}, !.changed = @ \ {name},
             !.removed = @ \cup {name}]

\* The event loop of a pass from the event it stands at up to its next
\* await: `unlink` events are handled at once (handleFileDeleted); an `add`
\* or a `change` suspends the pass at the stat of FileFsRef.fromFsPath; after
\* the last event the pass awaits getNowConfig(false).
\* st is [files, events, changed, removed].
RECURSIVE RunLoop(_)
RunLoop(st) ==
  IF st.events = <<>> THEN st
  ELSE IF Head(st.events).type = "unlink"
    THEN RunLoop(fileRemoved(Head(st.events).path,
                             [st EXCEPT !.events = Tail(@)]))
    ELSE st

\* The pass k after the loop has run from st.
Suspend(k, st) ==
  [pc |-> IF st.events = <<>> THEN "config" ELSE "stat",
   events |-> st.events, changed |-> st.changed, removed |-> st.removed,
   statOk |-> FALSE, queue |-> <<>>, called |-> <<>>, served |-> {}]

\* The build results of the registry the passes see, in iteration order:
\* one of a match built as a whole (its key is the sentinel), two of a match
\* built per request path; NoWatch: the result has no watch list.  The
\* first one has a distPath.
NoWatch == {"no watch list"}
BuildResults ==
  << [id |-> "r1", requestPath |-> NULL, watch |-> {"p"}, distPath |-> "dist"],
     [id |-> "r2", requestPath |-> "x",  watch |-> {"*"}, distPath |-> NULL],
     [id |-> "r3", requestPath |-> "y",  watch |-> NoWatch, distPath |-> NULL] >>

\* The files a build writes under its distPath.
DistFiles == {"dist/o"}

\* path.startsWith(prefix), for the paths of the model.
startsWith(path, prefix) ==
  prefix \in (CASE path = "dist/o" ->
                   {"", "d", "di", "dis", "dist", "dist/", "dist/o"}
                [] OTHER -> {"", path})

\* The distPaths list: buildResult.distPath of every build result of every
\* match that has one.
distPaths ==
  {BuildResults[i].distPath : i \in {j \in DOMAIN BuildResults :
                                      BuildResults[j].distPath # NULL}}

\* events.filter(event => distPaths.every(distPath =>
\*   !event.path.startsWith(distPath)))
DropDistNever(events) == events
DropDist(events) ==
  SelectSeq(events, LAMBDA event :
    \A distPath \in distPaths : ~startsWith(event.path, distPath))

\* const events = this.watchAggregationEvents.slice()
TakeBatch == watchAggregationEvents

\* The arrival numbers of a list of events.
Seqs(events) == [i \in 1..Len(events) |-> events[i].seq]

\* The debounce timer fires: the pending events become the batch of a new
\* handleFilesystemEvents call, which is not awaited; the call drops the
\* events under a distPath and enters its event loop.
\* (Idle passes are interchangeable: the lowest one starts.)
TimerFire(k) ==
  LET st == RunLoop([files |-> files, events |-> DropDist(TakeBatch),
                     changed |-> {}, removed |-> {}])
  IN
  /\ watchAggregationId
  /\ timerLeft = 0
  /\ handed' = handed \o Seqs(TakeBatch)
  /\ passes[k].pc = "idle"
  /\ \A j \in Passes : j < k => passes[j].pc # "idle"
  /\ watchAggregationEvents' = <<>>
  /\ watchAggregationId' = FALSE
  /\ files' = st.files
  /\ passes' = [passes EXCEPT ![k] = Suspend(k, st)]
  /\ UNCHANGED <<disk, diskEvents, timerLeft, schedVars, gateVars, stopVars, serveVars, startVars>>

\* FileFsRef.fromFsPath({ fsPath }): the stat reads the disk.
StatRead(k) ==
  /\ passes[k].pc = "stat"
  /\ passes' = [passes EXCEPT ![k] =
       [@ EXCEPT !.pc = "statDone",
                 !.statOk = Head(passes[k].events).path \in disk]]
  /\ UNCHANGED <<disk, files, watchAggregationEvents, watchAggregationId,
                 diskEvents, timerLeft, handed, schedVars, gateVars, stopVars, serveVars, startVars>>

\* handleFileCreated / handleFileModified resume: the stat's result is
\* stored in the index, or ENOENT removes the path; the loop goes on.
StatContinue(k) ==
  LET name == Head(passes[k].events).path
      st0  == [files |-> files, events |-> Tail(passes[k].events),
               changed |-> passes[k].changed, removed |-> passes[k].removed]
      st1  == IF passes[k].statOk
                THEN fileChanged(name, [st0 EXCEPT !.files = @ \cup {name}])
                ELSE fileRemoved(name, st0)
      st   == RunLoop(st1)
  IN
  /\ passes[k].pc = "statDone"
  /\ files' = st.files
  /\ passes' = [passes EXCEPT ![k] = Suspend(k, st)]
  /\ UNCHANGED <<disk, watchAggregationEvents, watchAggregationId,
                 diskEvents, timerLeft, handed, schedVars, gateVars, stopVars, serveVars, startVars>>

\* minimatch(file, pattern), for file names without a slash: `*` matches
\* every name, a pattern without wildcard matches itself.
minimatch(file, pattern) == pattern = "*" \/ file = pattern

\* files.some(file => file === pattern || minimatch(file, pattern))
minimatches(fileSet, pattern) ==
  \E file \in fileSet : file = pattern \/ minimatch(file, pattern)

\* The test that puts a build result into needsRebuild.
NeedsRebuildChangedOnly(r, changed, removed) ==
  /\ r.watch # NoWatch
  /\ \E pattern \in r.watch : minimatches(changed, pattern)
NeedsRebuild(r, changed, removed) ==
  /\ r.watch # NoWatch
  /\ \E pattern \in r.watch :
        minimatches(changed, pattern) \/ minimatches(removed, pattern)

\* The result with the given id.
ResultOf(id) ==
  CHOOSE r \in {BuildResults[i] : i \in DOMAIN BuildResults} : r.id = id

\* The rebuild loop of a pass from the entry it stands at up to its next
\* await: for the sentinel key triggerBuild is called at once; any other
\* key suspends the pass at `await shouldServe(...)`.
RECURSIVE RunRebuilds(_)
RunRebuilds(pass) ==
  IF pass.queue = <<>> THEN [pass EXCEPT !.pc = "done"]
  ELSE IF ResultOf(Head(pass.queue)).requestPath = NULL
    THEN RunRebuilds([pass EXCEPT !.queue = Tail(@),
                                  !.called = Append(@, Head(pass.queue))])
    ELSE [pass EXCEPT !.pc = "serve"]

\* The pass resumes after getNowConfig and updateBuildMatches, takes
\* [...filesChanged] and [...filesRemoved], collects needsRebuild and enters
\* the rebuild loop.
ScanRebuilds(k) ==
  LET needs == SelectSeq([i \in DOMAIN BuildResults |-> BuildResults[i].id],
                 LAMBDA id : NeedsRebuild(ResultOf(id), passes[k].changed,
                                          passes[k].removed))
  IN
  /\ passes[k].pc = "config"
  /\ passes' = [passes EXCEPT ![k] = RunRebuilds([@ EXCEPT !.queue = needs])]
  /\ UNCHANGED <<disk, files, watchAggregationEvents, watchAggregationId,
                 diskEvents, timerLeft, handed, schedVars, gateVars, stopVars, serveVars, startVars>>

\* shouldServe(match, this.files, requestPath, this) returns: on true
\* triggerBuild is called for the result; the loop goes on.
ShouldServeReturns(k, answer) ==
  LET id == Head(passes[k].queue)
  IN
  /\ passes[k].pc = "serve"
  /\ passes' = [passes EXCEPT ![k] =
       RunRebuilds([@ EXCEPT
         !.queue = Tail(@),
         !.called = IF answer THEN Append(@, id) ELSE @,
         !.served = IF answer THEN @ \cup {id} ELSE @])]
  /\ UNCHANGED <<disk, files, watchAggregationEvents, watchAggregationId,
                 diskEvents, timerLeft, handed, schedVars, gateVars, stopVars, serveVars, startVars>>

\* The rebuild loop is over: the pass ends.
FinishPass(k) ==
  /\ passes[k].pc = "done"
  /\ passes' = [passes EXCEPT ![k] = IdlePass]
  /\ UNCHANGED <<disk, files, watchAggregationEvents, watchAggregationId,
                 diskEvents, timerLeft, handed, schedVars, gateVars, stopVars, serveVars, startVars>>

NextFs ==
  \/ TickFs
  \/ \E type \in {"add", "change", "unlink"}, p \in Paths : DiskEvent(type, p)
  \/ \E k \in Passes : TimerFire(k)
  \/ \E k \in Passes : StatRead(k)
  \/ \E k \in Passes : StatContinue(k)
  \/ \E k \in Passes : ScanRebuilds(k)
  \/ \E k \in Passes, answer \in BOOLEAN : ShouldServeReturns(k, answer)
  \/ \E k \in Passes : FinishPass(k)

\* The aggregator with builds writing into a distPath.
NextDist ==
  \/ NextFs
  \/ \E type \in {"add", "change", "unlink"}, p \in DistFiles :
       DistEvent(type, p)

(***************************************************************************)
(* Shutdown.                                                               *)
(***************************************************************************)

StopCalls == 1..NumStops

\* A stop() call is not yet made ("new"), is at `await Promise.all(ops)`
\* ("awaiting"), has returned after it ("resolved") or has returned at once
\* because the flag was set ("returned").
NewStop == [pc |-> "new"]

\* The state once start() has returned: the server listens, the watcher is
\* up and the background update of the builders is still running.
InitStop ==
  /\ stopping = FALSE
  /\ stops = [s \in StopCalls |-> NewStop]
  /\ updateBuildersPromise = TRUE
  /\ serverCloses = 0
  /\ watcherCloses = 0
  /\ builderShutdowns = [e \in Entrypoints |-> 0]

\* updateBuilders(...).then / .catch: this.updateBuildersPromise = null
UpdateBuildersDone ==
  /\ updateBuildersPromise
  /\ updateBuildersPromise' = FALSE
  /\ UNCHANGED <<stopping, stops, serverCloses, watcherCloses,
                 builderShutdowns, schedVars, gateVars, fsVars, serveVars, startVars>>

\* if (this.stopping) return;
StopAlreadyCalledNever == FALSE
StopAlreadyCalled == stopping

\* stop() up to `await Promise.all(ops)`: a call that finds the flag set
\* returns at once; the first call sets the flag, shuts every registered
\* builder down, closes the server and the watcher.
\* (Calls not yet made are interchangeable: the lowest one is made.)
StopCall(s) ==
  /\ stops[s].pc = "new"
  /\ \A r \in StopCalls : r < s => stops[r].pc # "new"
  /\ IF StopAlreadyCalled
       THEN /\ stops' = [stops EXCEPT ![s].pc = "returned"]
            /\ UNCHANGED <<stopping, serverCloses, watcherCloses,
                           builderShutdowns>>
       ELSE /\ stopping' = TRUE
            /\ builderShutdowns' = [e \in Entrypoints |->
                 IF e \in buildMatches THEN builderShutdowns[e] + 1
                                       ELSE builderShutdowns[e]]
            /\ serverCloses' = serverCloses + 1
            /\ watcherCloses' = watcherCloses + 1
            /\ stops' = [stops EXCEPT ![s].pc = "awaiting"]
  /\ UNCHANGED <<updateBuildersPromise, schedVars, gateVars, fsVars, serveVars, startVars>>

\* A request has arrived and its response has not ended: its connection is
\* open.
InFlight(c) ==
  /\ callers[c].kind = "req"
  /\ callers[c].pc \notin {"new", "closed"}

\* await Promise.all(ops) continues and stop() returns.  ops holds the
\* shutdownBuilder promises, which resolve once the builder is shut down;
\* close(this.server), which resolves once no connection is open; and
\* this.updateBuildersPromise if it was set, which start() resets to null
\* when the background update is over.
StopResolve(s) ==
  /\ stops[s].pc = "awaiting"
  /\ \A c \in Callers : ~InFlight(c)
  /\ ~updateBuildersPromise
  /\ stops' = [stops EXCEPT ![s].pc = "resolved"]
  /\ UNCHANGED <<stopping, updateBuildersPromise, serverCloses, watcherCloses,
                 builderShutdowns, schedVars, gateVars, fsVars, serveVars, startVars>>

StopActions ==
  \/ UpdateBuildersDone
  \/ \E s \in StopCalls : StopCall(s)
  \/ \E s \in StopCalls : StopResolve(s)

(***************************************************************************)
(* Request serving: the control flow of serveProjectAsNowV2.               *)
(***************************************************************************)

Requests == 1..NumRequests

\* The response of a request: res.statusCode, what res.end() or the helper
\* that answers was given, and the headers of the claims: nowHeaders says
\* that server, x-now-trace, x-now-id and x-now-cache are set to the values
\* of setResponseHeaders, cacheControl is "" (not set), "default" (public,
\* max-age=0, must-revalidate) or "custom" (a value the caller passed).
Unanswered ==
  [status |-> 0, body |-> "", nowHeaders |-> FALSE, cacheControl |-> ""]

\* setResponseHeaders(res, nowRequestId, headers): allHeaders is the default
\* cache-control, then the caller's headers, then the four now headers; each
\* of them is set on the response.
setResponseHeaders(res, headers) ==
  [res EXCEPT !.nowHeaders = TRUE,
              !.cacheControl = IF "cache-control" \in headers
                                 THEN "custom" ELSE "default"]

\* sendError(req, res, nowRequestId, errorCode, statusCode)
sendError(res, errorCode, statusCode) ==
  [setResponseHeaders(res, {}) EXCEPT !.status = statusCode,
                                      !.body = errorCode]

\* send404(req, res, nowRequestId)
send404(res) == sendError(res, "FILE_NOT_FOUND", 404)

\* sendRedirect(req, res, nowRequestId, location, statusCode)
sendRedirect(res, statusCode) ==
  [setResponseHeaders(res, {"location"}) EXCEPT !.status = statusCode,
                                                !.body = "Redirecting"]

\* The catch of devServerHandler, with the response not finished:
\* res.statusCode = 500; res.end(err.message).
InternalError(res) == [res EXCEPT !.status = 500, !.body = "err.message"]

\* callLevel is the argument of the serveProjectAsNowV2 call the request is
\* in.  reconciled says that the updateBuildMatches call of that
\* serveProjectAsNowV2 call has returned.  History: entries counts the
\* serveProjectAsNowV2 calls made for the request, found is the last
\* matchedRoute.found, builds counts its triggerBuild calls, wanted is the
\* last value of !foundAsset || this.shouldRebuild(req), threw is what has
\* thrown for the request: nothing, "fn" (asset.fn) or "await" (another
\* await of the request).
NewRequest ==
  [pc |-> "new", callLevel |-> 0, reconciled |-> FALSE, entries |-> 0,
   found |-> FALSE, builds |-> 0, wanted |-> FALSE, threw |-> "",
   response |-> Unanswered]

(***************************************************************************)
(* getNowConfig.                                                           *)
(***************************************************************************)

ConfigCalls == 1..NumConfigCalls

\* A config object: whether it has its builds and its routes, and the
\* version of now.json it was read from (0: no now.json, the builds and
\* routes are the detected ones).
ConfigObject(version) == [builds |-> TRUE, routes |-> TRUE, readAt |-> version]

\* A getNowConfig call: calledAt is the version of now.json on disk when the
\* call was made, promise the call whose _getNowConfig it awaits, config
\* the object _getNowConfig works on, result the object the call returned.
NewConfigCall ==
  [pc |-> "new", canUseCache |-> TRUE, calledAt |-> 0, promise |-> 0,
   config |-> 0, result |-> 0]

\* The state once start() has returned: its getNowConfig(false, true) has
\* loaded the configuration of a project without now.json and cached it.
NewLoader ==
  [nowJson |-> 0, objects |-> <<ConfigObject(0)>>, cachedNowConfig |-> 1,
   getNowConfigPromise |-> 0, calls |-> [c \in ConfigCalls |-> NewConfigCall]]

\* The other variables are left alone by the steps of the loader.
LoaderOnly ==
  UNCHANGED <<requests, prologue, keyed, reconciler, schedVars, gateVars, fsVars,
              stopVars, startVars>>

\* now.json is written: created, or edited.
WriteNowJson ==
  /\ loader.nowJson < MaxConfigEdits
  /\ loader' = [loader EXCEPT !.nowJson = @ + 1]
  /\ LoaderOnly

\* getNowConfig(canUseCache) up to its first await.  If a promise is stored
\* the call returns it.  Otherwise it stores the promise of _getNowConfig,
\* which returns the cached object if it may, and else awaits
\* getPackageJson().
\* (Calls not yet made are interchangeable: the lowest one is made.)
GetNowConfig(c, canUseCache) ==
  LET call == [loader.calls[c] EXCEPT !.canUseCache = canUseCache,
                                      !.calledAt = loader.nowJson]
  IN
  /\ loader.calls[c].pc = "new"
  /\ \A d \in ConfigCalls : d < c => loader.calls[d].pc # "new"
  /\ loader' =
       IF loader.getNowConfigPromise # 0
         THEN [loader EXCEPT !.calls[c] =
                 [call EXCEPT !.pc = "joined",
                              !.promise = loader.getNowConfigPromise]]
       ELSE IF canUseCache /\ loader.cachedNowConfig # 0
         THEN [loader EXCEPT
                 !.getNowConfigPromise = c,
                 !.calls[c] = [call EXCEPT !.pc = "resolved", !.promise = c,
                                           !.result = loader.cachedNowConfig]]
         ELSE [loader EXCEPT
                 !.getNowConfigPromise = c,
                 !.calls[c] = [call EXCEPT !.pc = "package", !.promise = c]]
  /\ LoaderOnly

\* _getNowConfig after getPackageJson(): config is the cached object, whose
\* builds and routes are deleted; now.json is being read.
ReadNowJson(c) ==
  /\ loader.calls[c].pc = "package"
  /\ loader' = [loader EXCEPT
       !.objects[loader.cachedNowConfig] =
          [@ EXCEPT !.builds = FALSE, !.routes = FALSE],
       !.calls[c] = [@ EXCEPT !.pc = "reading",
                              !.config = loader.cachedNowConfig]]
  /\ LoaderOnly

\* fs.readFile returns.  With a now.json, config is the parsed file, a new
\* object that has its builds and routes, and validateNowConfig is awaited;
\* without one (ENOENT) config is still the cached object, which has no
\* builds, and the project files are listed for detectBuilders.
FileRead(c) ==
  /\ loader.calls[c].pc = "reading"
  /\ loader' =
       IF loader.nowJson # 0
         THEN [loader EXCEPT
                 !.objects = Append(@, ConfigObject(loader.nowJson)),
                 !.calls[c] = [@ EXCEPT !.pc = "validating",
                                        !.config = Len(loader.objects) + 1]]
         ELSE [loader EXCEPT !.calls[c].pc = "detecting"]
  /\ LoaderOnly

\* detectBuilders and detectRoutes have returned: the builders and the
\* default routes are pushed onto config; validateNowConfig is awaited.
Detected(c) ==
  /\ loader.calls[c].pc = "detecting"
  /\ loader' = [loader EXCEPT
       !.objects[loader.calls[c].config] =
          [@ EXCEPT !.builds = TRUE, !.routes = TRUE],
       !.calls[c].pc = "validating"]
  /\ LoaderOnly

\* validateNowConfig returns: this.cachedNowConfig = config; return config.
Validated(c) ==
  /\ loader.calls[c].pc = "validating"
  /\ loader' = [loader EXCEPT
       !.cachedNowConfig = loader.calls[c].config,
       !.calls[c] = [@ EXCEPT !.pc = "resolved",
                              !.result = loader.calls[c].config]]
  /\ LoaderOnly

\* `return await this.getNowConfigPromise` continues in the call that stored
\* the promise: finally { this.getNowConfigPromise = null }, and the caller
\* has the config.
ConfigReturns(c) ==
  /\ loader.calls[c].pc = "resolved"
  /\ loader' = [loader EXCEPT !.getNowConfigPromise = 0,
                              !.calls[c].pc = "holding"]
  /\ LoaderOnly

\* The promise a call was handed is resolved: the caller has the config.
JoinedReturns(c) ==
  LET owner == loader.calls[c].promise
  IN
  /\ loader.calls[c].pc = "joined"
  /\ loader.calls[owner].pc \in {"resolved", "holding", "done"}
  /\ loader' = [loader EXCEPT
       !.calls[c] = [@ EXCEPT !.pc = "holding",
                              !.result = loader.calls[owner].result]]
  /\ LoaderOnly

\* The caller is over: the request is answered, the pass has ended.
ConfigDropped(c) ==
  /\ loader.calls[c].pc = "holding"
  /\ loader' = [loader EXCEPT !.calls[c].pc = "done"]
  /\ LoaderOnly

NextConfig ==
  \/ WriteNowJson
  \/ \E c \in ConfigCalls, canUseCache \in BOOLEAN : GetNowConfig(c, canUseCache)
  \/ \E c \in ConfigCalls : ReadNowJson(c)
  \/ \E c \in ConfigCalls : FileRead(c)
  \/ \E c \in ConfigCalls : Detected(c)
  \/ \E c \in ConfigCalls : Validated(c)
  \/ \E c \in ConfigCalls : ConfigReturns(c)
  \/ \E c \in ConfigCalls : JoinedReturns(c)
  \/ \E c \in ConfigCalls : ConfigDropped(c)

(***************************************************************************)
(* The build matches as objects: updateBuildMatches and                    *)
(* invalidateBuildMatches with a `use` that changes.                       *)
(***************************************************************************)

Runs == 1..NumRuns

BuildUses == {"@now/node", "@now/next", "@now/static"}

\* config[src] is the `use` of the build of the config that matches src, or
\* NULL; matchUse[id] is the `use` of match object id; buildMatches[src] is
\* the match object registered for src, or 0; shutdowns counts the
\* shutdownBuilder calls per match object; left is the match objects that
\* were registered and no longer are.
NewReconciler ==
  [config |-> [src \in Entrypoints |-> "@now/node"],
   matchUse |-> << >>,
   buildMatches |-> [src \in Entrypoints |-> 0],
   shutdowns |-> << >>,
   left |-> {},
   runs |-> [r \in Runs |-> [pc |-> "idle",
                             matches |-> [src \in Entrypoints |-> NULL]]],
   changes |-> 0,
   invalidations |-> 0]

ReconcilerOnly ==
  UNCHANGED <<requests, prologue, keyed, loader, schedVars, gateVars, fsVars,
              stopVars, startVars>>

\* shutdownBuilder(match) for the match objects ids.
shutdownBuilder(shutdowns, ids) ==
  [id \in DOMAIN shutdowns |->
     IF id \in ids THEN shutdowns[id] + 1 ELSE shutdowns[id]]

\* The config is edited: the build that matches src uses another builder,
\* or no build matches src any more.
ChangeUse(src, use) ==
  /\ reconciler.changes < MaxUseChanges
  /\ reconciler.config[src] # use
  /\ reconciler' = [reconciler EXCEPT !.config[src] = use, !.changes = @ + 1]
  /\ ReconcilerOnly

\* updateBuildMatches(nowConfig) up to `await getBuildMatches(...)`.
UpdateBuildMatches(r) ==
  /\ reconciler.runs[r].pc = "idle"
  /\ reconciler' = [reconciler EXCEPT
       !.runs[r] = [pc |-> "matching", matches |-> reconciler.config]]
  /\ ReconcilerOnly

\* getBuildMatches returns; the delete loop: every registered src that is
\* not among the sources is shut down and deleted.
DeleteMatches(r) ==
  LET found == reconciler.runs[r].matches
      gone    == {src \in Entrypoints :
                    reconciler.buildMatches[src] # 0 /\ found[src] = NULL}
      ids     == {reconciler.buildMatches[src] : src \in gone}
  IN
  /\ reconciler.runs[r].pc = "matching"
  /\ reconciler' = [reconciler EXCEPT
       !.shutdowns = shutdownBuilder(@, ids),
       !.left = @ \cup ids,
       !.buildMatches = [src \in Entrypoints |->
                           IF src \in gone THEN 0 ELSE @[src]],
       !.runs[r].pc = "deleting"]
  /\ ReconcilerOnly

\* The add loop for one src, on the registry reg = [matchUse, buildMatches,
\* left]: `if (!currentMatch || currentMatch.use !== match.use)
\* this.buildMatches.set(match.src, match)`.
SetMatch(reg, src, use) ==
  LET currentMatch == reg.buildMatches[src]
  IN
  IF use = NULL THEN reg
  ELSE IF currentMatch # 0 /\ reg.matchUse[currentMatch] = use THEN reg
  ELSE [matchUse |-> Append(reg.matchUse, use),
        buildMatches |-> [reg.buildMatches EXCEPT
                            ![src] = Len(reg.matchUse) + 1],
        left |-> IF currentMatch # 0 THEN reg.left \cup {currentMatch}
                                     ELSE reg.left]

\* `await Promise.all(ops)` returns; the add loop over the matches.
AddMatches(r) ==
  LET found == reconciler.runs[r].matches
      reg0 == [matchUse |-> reconciler.matchUse,
               buildMatches |-> reconciler.buildMatches,
               left |-> reconciler.left]
      reg1 == SetMatch(reg0, "a", found["a"])
      reg2 == SetMatch(reg1, "b", found["b"])
  IN
  /\ reconciler.runs[r].pc = "deleting"
  /\ reconciler' = [reconciler EXCEPT
       !.matchUse = reg2.matchUse,
       !.buildMatches = reg2.buildMatches,
       !.left = reg2.left,
       !.shutdowns = [id \in 1..Len(reg2.matchUse) |->
                        IF id \in DOMAIN @ THEN @[id] ELSE 0],
       !.runs[r].pc = "idle"]
  /\ ReconcilerOnly

\* invalidateBuildMatches(nowConfig, updatedBuilders) after `await
\* builderDirPromise`: the matches of an updated builder other than
\* @now/static are shut down and deleted, then updateBuildMatches(nowConfig)
\* runs up to its first await.
InvalidateMatches(r, updatedBuilders) ==
  LET gone == {src \in Entrypoints :
                 /\ reconciler.buildMatches[src] # 0
                 /\ reconciler.matchUse[reconciler.buildMatches[src]]
                      # "@now/static"
                 /\ reconciler.matchUse[reconciler.buildMatches[src]]
                      \in updatedBuilders}
      ids  == {reconciler.buildMatches[src] : src \in gone}
  IN
  /\ reconciler.runs[r].pc = "idle"
  /\ reconciler.invalidations < MaxInvalidations
  /\ updatedBuilders # {}
  /\ reconciler' = [reconciler EXCEPT
       !.shutdowns = shutdownBuilder(@, ids),
       !.left = @ \cup ids,
       !.buildMatches = [src \in Entrypoints |->
                           IF src \in gone THEN 0 ELSE @[src]],
       !.invalidations = @ + 1,
       !.runs[r] = [pc |-> "matching", matches |-> reconciler.config]]
  /\ ReconcilerOnly

NextMatches ==
  \/ \E src \in Entrypoints, use \in BuildUses \cup {NULL} : ChangeUse(src, use)
  \/ \E r \in Runs : UpdateBuildMatches(r)
  \/ \E r \in Runs : DeleteMatches(r)
  \/ \E r \in Runs : AddMatches(r)
  \/ \E r \in Runs, updatedBuilders \in SUBSET BuildUses :
       InvalidateMatches(r, updatedBuilders)

(***************************************************************************)
(* triggerBuild over several matches: the build keys.                      *)
(***************************************************************************)

\* The src of the build matches, and the request paths: the sentinel, the
\* empty path (of a request for "/") and others.
KeySrcs == {"a", "a-b"}
KeyPaths == {NULL, "", "b", "c", "b-c"}

\* A (match, requestPath) pair, which also names the build started for it.
Pair(src, requestPath) == [src |-> src, requestPath |-> requestPath]

\* No call has been made: this.inProgressBuilds is empty.  An entry of the
\* table is a key and the build whose promise is stored under it.
NewKeyed == [inProgressBuilds |-> {}, running |-> {}, calls |-> {}]

\* triggerBuild(match, requestPath, ...) up to `await buildPromise`, for a
\* match that was not built within the last 2 s and a pair no call is
\* under way for: the call awaits the build stored under its key if there is
\* one, and otherwise starts a build and stores it under the key.
KeyedTrigger(src, requestPath) ==
  LET pair == Pair(src, requestPath)
      key == BuildKey(src, requestPath)
      stored == {e \in keyed.inProgressBuilds : e.key = key}
  IN /\ Cardinality(keyed.calls) < NumKeyedCalls
     /\ \A c \in keyed.calls : c.pair # pair
     /\ pair \notin keyed.running
     /\ keyed' =
          IF stored # {}
            THEN [keyed EXCEPT !.calls = @ \cup
                    {[pair |-> pair, awaiting |-> (CHOOSE e \in stored : TRUE).build]}]
            ELSE [keyed EXCEPT
                    !.inProgressBuilds = @ \cup {[key |-> key, build |-> pair]},
                    !.running = @ \cup {pair},
                    !.calls = @ \cup {[pair |-> pair, awaiting |-> pair]}]
     /\ UNCHANGED <<requests, prologue, loader, reconciler, schedVars, gateVars, fsVars, stopVars,
                    startVars>>

\* The build of a pair settles.
KeyedSettle(build) ==
  /\ build \in keyed.running
  /\ keyed' = [keyed EXCEPT !.running = @ \ {build}]
  /\ UNCHANGED <<requests, prologue, loader, reconciler, schedVars, gateVars, fsVars, stopVars,
                 startVars>>

\* The finally of a call whose awaited build has settled:
\* this.inProgressBuilds.delete(buildKey).
KeyedFinally(call) ==
  /\ call \in keyed.calls
  /\ call.awaiting \notin keyed.running
  /\ keyed' = [keyed EXCEPT
       !.inProgressBuilds =
          {e \in @ : e.key # BuildKey(call.pair.src, call.pair.requestPath)},
       !.calls = @ \ {call}]
  /\ UNCHANGED <<requests, prologue, loader, reconciler, schedVars, gateVars, fsVars, stopVars,
                 startVars>>

NextKeys ==
  \/ \E src \in KeySrcs, requestPath \in KeyPaths : KeyedTrigger(src, requestPath)
  \/ \E build \in keyed.running : KeyedSettle(build)
  \/ \E call \in keyed.calls : KeyedFinally(call)

\* The characters of a request path and the paths: they start with a slash.
PathChars == {"/", "a"}

RECURSIVE SeqsUpTo(_, _)
SeqsUpTo(chars, n) ==
  IF n = 0 THEN {<<>>}
  ELSE LET shorter == SeqsUpTo(chars, n - 1)
       IN shorter \cup {<<c>> \o t : c \in chars, t \in shorter}

Pathnames == {<<"/">> \o t : t \in SeqsUpTo(PathChars, MaxPathLen - 1)}

\* parsed.search: none, or a query string, which may hold slashes.
Searches == {<<>>, <<"?", "/", "/">>}

Methods == {"GET", "POST"}

\* parsed.pathname.includes('//')
includesDoubleSlash(pathname) ==
  \E i \in 1..(Len(pathname) - 1) : pathname[i] = "/" /\ pathname[i + 1] = "/"

\* parsed.pathname.replace(/\/+/g, '/'): every run of slashes is replaced by
\* one slash, from left to right.  (Without the g flag only the first run,
\* the one the path starts with, would be.)
RECURSIVE replaceFirstSlashRun(_)
replaceFirstSlashRun(pathname) ==
  IF Len(pathname) >= 2 /\ pathname[1] = "/" /\ pathname[2] = "/"
    THEN replaceFirstSlashRun(Tail(pathname))
    ELSE pathname

RECURSIVE replaceSlashRuns(_)
replaceSlashRuns(pathname) ==
  IF Len(pathname) < 2 THEN pathname
  ELSE IF pathname[1] = "/" /\ pathname[2] = "/"
    THEN replaceSlashRuns(Tail(pathname))
  ELSE <<pathname[1]>> \o replaceSlashRuns(Tail(pathname))

\* serveProjectAsNowV2 has not been called for the request.
NewPrologue ==
  [pc |-> "new", method |-> "", pathname |-> <<>>, search |-> <<>>,
   url |-> <<>>, location |-> <<>>, response |-> Unanswered]

\* serveProjectAsNowV2 up to its first await, for a request with the given
\* method and URL.  If the path holds a double slash, location is the path
\* with its slash runs replaced, followed by the query string: a GET is
\* redirected to it with 301 and the call returns, any other request has
\* req.url set to it.  The call then goes on to updateBuildMatches.
CollapseSlashes(method, pathname, search) ==
  /\ prologue.pc = "new"
  /\ LET location == replaceSlashRuns(pathname) \o search
         received == [prologue EXCEPT !.method = method,
                                      !.pathname = pathname,
                                      !.search = search,
                                      !.url = pathname \o search]
     IN prologue' =
          IF includesDoubleSlash(pathname)
            THEN IF method = "GET"
                   THEN [received EXCEPT
                           !.pc = "redirected",
                           !.location = location,
                           !.response = sendRedirect(@, 301)]
                   ELSE [received EXCEPT !.pc = "update", !.url = location]
            ELSE [received EXCEPT !.pc = "update"]
  /\ UNCHANGED <<requests, keyed, loader, reconciler, schedVars, gateVars, fsVars, stopVars, startVars>>

NextNormalize ==
  \E method \in Methods, pathname \in Pathnames, search \in Searches :
    CollapseSlashes(method, pathname, search)

InitServe ==
  /\ requests = [r \in Requests |-> NewRequest]
  /\ prologue = NewPrologue
  /\ keyed = NewKeyed
  /\ loader = NewLoader
  /\ reconciler = NewReconciler

\* The request is answered with the given response.
Answer(req, res) == [req EXCEPT !.pc = "done", !.response = res]

\* await this.updateBuildMatches(nowConfig): the call is made and the
\* request waits for it to return.
ReconcileNotAwaited(req) == [req EXCEPT !.pc = "router", !.reconciled = FALSE]
Reconcile(req) == [req EXCEPT !.pc = "update", !.reconciled = FALSE]

\* serveProjectAsNowV2 is entered with the given callLevel, up to its first
\* await: a GET whose path holds a double slash is redirected (await
\* sendRedirect, return); any other request goes on to updateBuildMatches.
Enter(req, level, redirect) ==
  LET entered == [req EXCEPT !.callLevel = level, !.entries = @ + 1]
  IN IF redirect THEN Answer(entered, sendRedirect(entered.response, 301))
                 ELSE Reconcile(entered)

\* devServerHandler: getNowConfig() has resolved and serveProjectAsNowV2 is
\* called, with the default callLevel 0.
\* (Requests not yet made are interchangeable: the lowest one is made.)
ServeProject(r, redirect) ==
  /\ requests[r].pc = "new"
  /\ \A q \in Requests : q < r => requests[q].pc # "new"
  /\ requests' = [requests EXCEPT ![r] = Enter(@, 0, redirect)]
  /\ UNCHANGED <<prologue, keyed, loader, reconciler, schedVars, gateVars, fsVars, stopVars, startVars>>

\* updateBuildMatches returns.  if (this.blockingBuildsPromise) the request
\* awaits it, otherwise it calls devRouter with the routes it was given.
\* Whether the gate is set is left open here.
UpdateReturns(r, gated) ==
  /\ requests[r].pc = "update"
  /\ requests' = [requests EXCEPT ![r] =
       [@ EXCEPT !.reconciled = TRUE,
                 !.pc = IF gated THEN "gate" ELSE "router"]]
  /\ UNCHANGED <<prologue, keyed, loader, reconciler, schedVars, gateVars, fsVars, stopVars, startVars>>

\* await this.blockingBuildsPromise continues: devRouter is called.
GatePasses(r) ==
  /\ requests[r].pc = "gate"
  /\ requests' = [requests EXCEPT ![r].pc = "router"]
  /\ UNCHANGED <<prologue, keyed, loader, reconciler, schedVars, gateVars, fsVars, stopVars, startVars>>

\* devRouter returns: a dest that is a URL is proxied and a redirect status
\* is sent (both return); otherwise findBuildMatch is awaited.
RouterOutcomes == {"proxy", "redirect", "dest"}

\* this.setResponseHeaders(res, nowRequestId); return proxyPass(...)
Proxied(res) ==
  [setResponseHeaders(res, {}) EXCEPT !.status = 200, !.body = "proxied"]

RouterReturns(r, outcome) ==
  /\ requests[r].pc = "router"
  /\ requests' = [requests EXCEPT ![r] =
       CASE outcome = "proxy" -> Answer(@, Proxied(@.response))
         [] outcome = "redirect" -> Answer(@, sendRedirect(@.response, 302))
         [] OTHER -> [@ EXCEPT !.pc = "findMatch"]]
  /\ UNCHANGED <<prologue, keyed, loader, reconciler, schedVars, gateVars, fsVars, stopVars, startVars>>

\* matchedRoute.found && callLevel === 0
MayDescendAlways(found, callLevel) == found
MayDescend(found, callLevel) == found /\ callLevel = 0

\* (!foundAsset || this.shouldRebuild(req)) && callLevel === 0
MayBuild(wanted, callLevel) == wanted /\ callLevel = 0

\* What findAsset returns: nothing, or an asset by its type; a Lambda has
\* its fn or not.
Assets ==
  {"none", "FileFsRef", "FileBlob", "Lambda", "LambdaWithoutFn", "Unknown"}

\* The catch around asset.fn(...): sendError with NO_STATUS_CODE_FROM_LAMBDA
\* and 502.  (Rethrown, the error would reach devServerHandler's catch.)
InvokeFailedRethrown(res) == InternalError(res)
InvokeFailed(res) == sendError(res, "NO_STATUS_CODE_FROM_LAMBDA", 502)

\* The result of the function: res.statusCode = result.statusCode;
\* this.setResponseHeaders(res, nowRequestId, result.headers);
\* res.end(resBody).
InvokeResult(res, headers) ==
  [setResponseHeaders(res, headers) EXCEPT !.status = 200, !.body = "result"]

\* if (!foundAsset) send404, then the switch on asset.type: a file and a
\* blob are served, the body of the request is read for a Lambda that has
\* its fn, and anything else is an error of the server.
Respond(req, asset) ==
  CASE asset = "none" -> Answer(req, send404(req.response))
    [] asset = "FileFsRef" ->
         Answer(req, [setResponseHeaders(req.response, {})
                        EXCEPT !.status = 200, !.body = "file"])
    [] asset = "FileBlob" ->
         Answer(req, [setResponseHeaders(req.response,
                                         {"Content-Length", "Content-Type"})
                        EXCEPT !.status = 200, !.body = "blob"])
    [] asset = "Lambda" -> [req EXCEPT !.pc = "body"]
    [] asset = "LambdaWithoutFn" ->
         Answer(req, sendError(req.response, "INTERNAL_LAMBDA_NOT_FOUND", 500))
    [] OTHER -> Answer(req, sendError(req.response, "UNKNOWN_ASSET_TYPE", 500))

\* From findAsset on: triggerBuild is awaited if the asset is missing or a
\* rebuild is asked for, at callLevel 0; otherwise the response is chosen.
ServeAsset(req, asset, noCache) ==
  LET wanted == asset = "none" \/ noCache
      looked == [req EXCEPT !.wanted = wanted]
  IN IF MayBuild(wanted, req.callLevel)
       THEN [looked EXCEPT !.pc = "build", !.builds = @ + 1]
       ELSE Respond(looked, asset)

\* findBuildMatch returns.  Without a match the request is answered: by the
\* directory listing if renderDirectoryListing makes one, by send404
\* otherwise.  If the build result for the request declares routes,
\* devRouter is awaited on them; otherwise the asset is looked up, the
\* request carrying a no-cache header or not.
MatchReturns(r, matched, listing, hasRoutes) ==
  /\ requests[r].pc = "findMatch"
  /\ IF ~matched
       THEN requests' = [requests EXCEPT ![r] =
              IF listing
                THEN Answer(@, [setResponseHeaders(@.response, {})
                                  EXCEPT !.status = 200, !.body = "listing"])
                ELSE Answer(@, send404(@.response))]
     ELSE IF hasRoutes
       THEN requests' = [requests EXCEPT ![r].pc = "subRouter"]
     ELSE \E asset \in Assets, noCache \in BOOLEAN :
            requests' = [requests EXCEPT ![r] = ServeAsset(@, asset, noCache)]
  /\ UNCHANGED <<prologue, keyed, loader, reconciler, schedVars, gateVars, fsVars, stopVars, startVars>>

\* devRouter on the build result's routes returns matchedRoute.  If a route
\* matched and this is the outer call, serveProjectAsNowV2 is called again
\* with callLevel + 1, for a URL that is redirected or not, and the outer
\* call returns when it does; otherwise the asset is looked up.
SubRouterReturns(r, found) ==
  /\ requests[r].pc = "subRouter"
  /\ IF MayDescend(found, requests[r].callLevel)
       THEN \E redirect \in BOOLEAN :
              requests' = [requests EXCEPT ![r] =
                Enter([@ EXCEPT !.found = found], @.callLevel + 1, redirect)]
       ELSE \E asset \in Assets, noCache \in BOOLEAN :
              requests' = [requests EXCEPT ![r] =
                ServeAsset([@ EXCEPT !.found = found], asset, noCache)]
  /\ UNCHANGED <<prologue, keyed, loader, reconciler, schedVars, gateVars, fsVars, stopVars, startVars>>

\* triggerBuild returns: foundAsset = findAsset(match, requestPath), and the
\* response is chosen.
BuildReturns(r, asset) ==
  /\ requests[r].pc = "build"
  /\ requests' = [requests EXCEPT ![r] = Respond(@, asset)]
  /\ UNCHANGED <<prologue, keyed, loader, reconciler, schedVars, gateVars, fsVars, stopVars, startVars>>

\* await rawBody(req) returns: asset.fn is called with the invocation.
BodyRead(r) ==
  /\ requests[r].pc = "body"
  /\ requests' = [requests EXCEPT ![r].pc = "invoke"]
  /\ UNCHANGED <<prologue, keyed, loader, reconciler, schedVars, gateVars, fsVars, stopVars, startVars>>

\* await asset.fn(...) returns the result, whose headers hold a
\* cache-control of the function or not.
InvokeReturns(r, cacheControl) ==
  /\ requests[r].pc = "invoke"
  /\ requests' = [requests EXCEPT ![r] =
       Answer(@, InvokeResult(@.response,
                              IF cacheControl THEN {"cache-control"} ELSE {}))]
  /\ UNCHANGED <<prologue, keyed, loader, reconciler, schedVars, gateVars, fsVars, stopVars, startVars>>

\* await asset.fn(...) throws.
InvokeThrows(r) ==
  /\ requests[r].pc = "invoke"
  /\ requests' = [requests EXCEPT ![r] =
       Answer([@ EXCEPT !.threw = "fn"], InvokeFailed(@.response))]
  /\ UNCHANGED <<prologue, keyed, loader, reconciler, schedVars, gateVars, fsVars, stopVars, startVars>>

\* The awaits of serveProjectAsNowV2 outside the try around asset.fn.
Awaiting ==
  {"update", "gate", "router", "findMatch", "subRouter", "build", "body"}

\* One of them throws (updateBuildMatches, a blocking build, devRouter,
\* findBuildMatch, the build the request triggered, rawBody): the error
\* leaves serveProjectAsNowV2, both calls of it if it is nested, and is
\* caught by devServerHandler, which has sent nothing yet.
Throws(r) ==
  /\ requests[r].pc \in Awaiting
  /\ requests' = [requests EXCEPT ![r] =
       Answer([@ EXCEPT !.threw = "await"], InternalError(@.response))]
  /\ UNCHANGED <<prologue, keyed, loader, reconciler, schedVars, gateVars, fsVars, stopVars, startVars>>

NextServe ==
  \/ \E r \in Requests, redirect \in BOOLEAN : ServeProject(r, redirect)
  \/ \E r \in Requests, gated \in BOOLEAN : UpdateReturns(r, gated)
  \/ \E r \in Requests : GatePasses(r)
  \/ \E r \in Requests, outcome \in RouterOutcomes : RouterReturns(r, outcome)
  \/ \E r \in Requests, matched, listing, hasRoutes \in BOOLEAN :
       MatchReturns(r, matched, listing, hasRoutes)
  \/ \E r \in Requests, found \in BOOLEAN : SubRouterReturns(r, found)
  \/ \E r \in Requests, asset \in Assets : BuildReturns(r, asset)
  \/ \E r \in Requests : BodyRead(r)
  \/ \E r \in Requests, cacheControl \in BOOLEAN : InvokeReturns(r, cacheControl)
  \/ \E r \in Requests : InvokeThrows(r)
  \/ \E r \in Requests : Throws(r)

(***************************************************************************)
(* start().                                                                *)
(***************************************************************************)

\* listenSpec[0] is a port number or the path of a named socket.  The port
\* start() is asked for, and a named socket.
PortSpec(port) == [kind |-> "number", port |-> port]
RequestedPort == 3000
NamedSocket == [kind |-> "string", port |-> 0]

\* const blockingBuilds = Array.from(this.buildMatches.values())
\*   .filter(needsBlockingBuild): the project's entrypoints, in the order of
\* the registry.
InitialBlockingBuilds ==
  SelectSeq(SortEntries(ConfigOrder), LAMBDA e : needsBlockingBuild(e))

\* start() has not been called.
InitStart ==
  /\ startPc = "new"
  /\ listenSpec = PortSpec(RequestedPort)
  /\ listenAttempts = <<>>
  /\ bootIndex = 0
  /\ bootMatches = [e \in Entrypoints |-> 0]
  /\ bootBuilds = {}
  /\ updaterPc = "new"

\* An executeBuild call on the match of e of generation gen, made by start()
\* or by the updateBuildMatches call of the background update.
BootBuild(e, gen, by) == [src |-> e, gen |-> gen, by |-> by]

\* The step of start() after initial build number i: the next build of the
\* loop, or the watcher once the loop is over.
AfterInitialBuild(i) ==
  IF i < Len(InitialBlockingBuilds) THEN "building" ELSE "watching"

\* start(...listenSpec) up to the first `await executeBuild(...)` of the
\* loop over the blocking matches: the file index is built, the initial
\* updateBuildMatches(nowConfig, true) adds the matches without building,
\* the background update of the builders is started, and the first initial
\* build is.
Start(spec) ==
  /\ startPc = "new"
  /\ listenSpec' = spec
  /\ bootMatches' = [e \in Entrypoints |-> 1]
  /\ updaterPc' = "pending"
  /\ startPc' = AfterInitialBuild(0)
  /\ bootIndex' = 1
  /\ bootBuilds' = {BootBuild(InitialBlockingBuilds[1], 1, "start")}
  /\ UNCHANGED <<listenAttempts, schedVars, gateVars, fsVars, stopVars,
                 serveVars>>

\* The build start() awaits: on the match object the loop holds, which is
\* the one of generation 1.
AwaitedBuild == BootBuild(InitialBlockingBuilds[bootIndex], 1, "start")

\* The awaited initial build resolves: the loop goes on to the next blocking
\* match, or start() sets up the watcher and awaits its `ready` event.
InitialBuildResolves ==
  /\ startPc = "building"
  /\ AwaitedBuild \in bootBuilds
  /\ startPc' = AfterInitialBuild(bootIndex)
  /\ IF bootIndex < Len(InitialBlockingBuilds)
       THEN /\ bootIndex' = bootIndex + 1
            /\ bootBuilds' = (bootBuilds \ {AwaitedBuild}) \cup
                 {BootBuild(InitialBlockingBuilds[bootIndex + 1], 1, "start")}
       ELSE /\ bootIndex' = bootIndex
            /\ bootBuilds' = bootBuilds \ {AwaitedBuild}
  /\ UNCHANGED <<listenSpec, listenAttempts, bootMatches, updaterPc,
                 schedVars, gateVars, fsVars, stopVars, serveVars>>

\* The awaited initial build rejects: start() throws.
InitialBuildRejects ==
  /\ startPc = "building"
  /\ AwaitedBuild \in bootBuilds
  /\ startPc' = "failed"
  /\ bootBuilds' = bootBuilds \ {AwaitedBuild}
  /\ UNCHANGED <<listenSpec, listenAttempts, bootIndex, bootMatches,
                 updaterPc, schedVars, gateVars, fsVars, stopVars, serveVars>>

\* await once(this.watcher, 'ready') continues: the first listen() call.
WatcherReady ==
  /\ startPc = "watching"
  /\ startPc' = "listening"
  /\ UNCHANGED <<listenSpec, listenAttempts, bootIndex, bootMatches,
                 bootBuilds, updaterPc, schedVars, gateVars, fsVars, stopVars,
                 serveVars>>

\* listenSpec[0]++
NextPortSame(port) == port
NextPort(port) == port + 1

\* The ports the bind loop has found in use.
BusyPorts ==
  {i \in DOMAIN listenAttempts : listenAttempts[i].result = "EADDRINUSE"}

\* One turn of the bind loop: `await listen(this.server, ...listenSpec)`
\* returns an address, or throws.  On EADDRINUSE a numeric port is
\* incremented and the loop goes round, a named socket ends the process;
\* any other error is rethrown.
ListenResults == {"bound", "EADDRINUSE", "EACCES"}

ListenReturns(result) ==
  /\ startPc = "listening"
  /\ result = "EADDRINUSE" => Cardinality(BusyPorts) < MaxBusyPorts
  /\ listenAttempts' =
       Append(listenAttempts, [spec |-> listenSpec, result |-> result])
  /\ IF result = "bound"
       THEN startPc' = "ready" /\ UNCHANGED listenSpec
       ELSE IF result = "EADDRINUSE"
         THEN IF listenSpec.kind = "number"
                THEN /\ startPc' = "listening"
                     /\ listenSpec' = PortSpec(NextPort(listenSpec.port))
                ELSE startPc' = "exited" /\ UNCHANGED listenSpec
         ELSE startPc' = "failed" /\ UNCHANGED listenSpec
  /\ UNCHANGED <<bootIndex, bootMatches, bootBuilds, updaterPc,
                 schedVars, gateVars, fsVars, stopVars, serveVars>>

\* updateBuilders(...) resolves with the builders it updated:
\* invalidateBuildMatches returns at once if there are none and otherwise
\* awaits builderDirPromise.  If it rejects, the error is logged.
UpdateBuildersSettles(outcome) ==
  /\ updaterPc = "pending"
  /\ updaterPc' = IF outcome = "updated" THEN "purging" ELSE "done"
  /\ UNCHANGED <<startPc, listenSpec, listenAttempts, bootIndex, bootMatches,
                 bootBuilds, schedVars, gateVars, fsVars, stopVars, serveVars>>

\* invalidateBuildMatches after `await builderDirPromise`: the require cache
\* is purged, the matches of the updated builders are shut down and
\* deleted, and updateBuildMatches(nowConfig) is called, which awaits
\* getBuildMatches.
InvalidateInitialMatches ==
  /\ updaterPc = "purging"
  /\ bootMatches' = [e \in Entrypoints |-> 0]
  /\ updaterPc' = "matching"
  /\ UNCHANGED <<startPc, listenSpec, listenAttempts, bootIndex, bootBuilds,
                 schedVars, gateVars, fsVars, stopVars, serveVars>>

\* That updateBuildMatches call, from the delete loop to the end: isInitial
\* is false, so every match it adds whose builder needs a blocking build is
\* built at once, all of them side by side.
ReAddInitialMatches ==
  LET added == {e \in Entrypoints : bootMatches[e] = 0}
  IN
  /\ updaterPc = "matching"
  /\ bootMatches' = [e \in Entrypoints |-> IF e \in added THEN 2 ELSE bootMatches[e]]
  /\ bootBuilds' = bootBuilds \cup
       {BootBuild(e, 2, "update") : e \in {x \in added : needsBlockingBuild(x)}}
  /\ updaterPc' = "done"
  /\ UNCHANGED <<startPc, listenSpec, listenAttempts, bootIndex,
                 schedVars, gateVars, fsVars, stopVars, serveVars>>

\* A blocking build started by that updateBuildMatches call settles.
ReAddedBuildSettles(b) ==
  /\ b \in bootBuilds
  /\ b.by = "update"
  /\ bootBuilds' = bootBuilds \ {b}
  /\ UNCHANGED <<startPc, listenSpec, listenAttempts, bootIndex, bootMatches,
                 updaterPc, schedVars, gateVars, fsVars, stopVars, serveVars>>

NextStart ==
  \/ \E spec \in {PortSpec(RequestedPort), NamedSocket} : Start(spec)
  \/ InitialBuildResolves
  \/ InitialBuildRejects
  \/ WatcherReady
  \/ \E result \in ListenResults : ListenReturns(result)
  \/ \E outcome \in {"updated", "none", "rejected"} : UpdateBuildersSettles(outcome)
  \/ InvalidateInitialMatches
  \/ ReAddInitialMatches
  \/ \E b \in bootBuilds : ReAddedBuildSettles(b)

(***************************************************************************)
(* The specifications.                                                     *)
(***************************************************************************)

Init ==
  InitSched /\ InitGate /\ InitFs /\ InitStop /\ InitServe /\ InitStart

Next ==
  \/ Tick
  \/ \E t \in Tasks, kind \in {"req", "fs"}, p \in RequestPaths,
          noCache \in BOOLEAN : TriggerBuild(t, kind, p, noCache)
  \/ \E t \in Tasks : StartBuild(t)
  \/ \E b \in Tasks : BuildResolve(b)
  \/ \E b \in Tasks : BuildReject(b)
  \/ \E t \in Tasks : Finally(t)

Spec == Init /\ [][Next]_vars

NextInval ==
  \/ Next
  \/ InvalidateBuildMatches
  \/ ReAddMatch

SpecInval == Init /\ [][NextInval]_vars

SpecGate == Init /\ [][NextGate]_vars

\* The registry reconciliation alone: the callers of updateBuildMatches,
\* without the builds it starts settling and without the gate.
NextReconcile ==
  \/ \E c \in Callers : StartRequest(c)
  \/ \E c \in Callers, e \in Entrypoints : StartFsPass(c, e)
  \/ \E c \in Callers : Snapshot(c)
  \/ \E c \in Callers : DeleteLoop(c)
  \/ \E c \in Callers : AddLoop(c)

SpecReconcile == Init /\ [][NextReconcile]_vars

\* stop() beside the reconciliation and its blocking builds.
NextShutdown == NextGate \/ StopActions

SpecShutdown == Init /\ [][NextShutdown]_vars

\* stop() beside the request handlers and the reconciliation.
NextStop == NextReconcile \/ StopActions

SpecStop == Init /\ [][NextStop]_vars

SpecServe == Init /\ [][NextServe]_vars

SpecStart == Init /\ [][NextStart]_vars

SpecNormalize == Init /\ [][NextNormalize]_vars

SpecKeys == Init /\ [][NextKeys]_vars

SpecDist == Init /\ [][NextDist]_vars

SpecConfig == Init /\ [][NextConfig]_vars

SpecMatches == Init /\ [][NextMatches]_vars

SpecFs == Init /\ [][NextFs]_vars

(***************************************************************************)
(* The claims about the build scheduler (Spec, SpecInval).                 *)
(***************************************************************************)

\* The task t makes its triggerBuild call in this step.
Calls(t) == tasks[t].pc = "idle" /\ tasks'[t].pc # "idle"

\* The task t calls executeBuild in this step.
Builds(t) == tasks[t].pc = "config" /\ tasks'[t].pc = "waitOwn"

\* No build is started and no output is removed in this step.
NothingStartedOrRemoved ==
  /\ \A b \in Tasks : builds'[b].status = "running" => builds[b].status = "running"
  /\ \A m \in DOMAIN matches : matches[m].buildOutput \subseteq matches'[m].buildOutput

\* C1: at most one build per build key is running at any time: no two
\* running builds have the same key.
C1_OneRunningBuildPerKey ==
  \A a, b \in Tasks :
    ( /\ builds[a].status = "running"
      /\ builds[b].status = "running"
      /\ BuildKey(Src, builds[a].path) = BuildKey(Src, builds[b].path) )
    => a = b

\* C2: a triggerBuild call that finds an entry for its key in the
\* in-progress table awaits that entry's build; the call starts no build and
\* removes no outputs, neither when it is made nor when it returns, and it
\* returns only once the awaited build has resolved or rejected.
C2_DedupAwaitsExistingBuild ==
  [][\A t \in Tasks :
       /\ ( Calls(t) /\ inProgressBuilds[BuildKey(Src, tasks'[t].path)] # 0 )
          => /\ tasks'[t].pc = "waitDedup"
             /\ tasks'[t].awaiting = inProgressBuilds[BuildKey(Src, tasks'[t].path)]
             /\ NothingStartedOrRemoved
       /\ tasks[t].pc = "waitDedup"
          => /\ tasks'[t].pc \in {"waitDedup", "idle"}
             /\ tasks'[t].pc = "idle"
                => /\ builds[tasks[t].awaiting].status \in {"resolved", "rejected"}
                   /\ NothingStartedOrRemoved
    ]_vars

\* C2 witness: a de-duplicated call is waiting and the build it awaits has
\* resolved, so the call is about to return.
C2_Witness ==
  \E t \in Tasks :
    /\ tasks[t].pc = "waitDedup"
    /\ builds[tasks[t].awaiting].status = "resolved"

\* C3 (as amended): with no entry for the key in the in-progress table,
\* triggerBuild skips the build if and only if the match's buildTimestamp,
\* set when a build of any key of the match last finished, is less than 2 s
\* old.
C3_CooldownPerMatch ==
  [][\A t \in Tasks :
       ( Calls(t) /\ inProgressBuilds[BuildKey(Src, tasks'[t].path)] = 0 )
       => ( tasks'[t].pc = "waitSkip"
            <=> matches[registry].sinceBuild < Cooldown )
    ]_vars

\* C3 witness: a call for a path no build was ever started for has been
\* skipped (another key of the match was built less than 2 s before).
C3_Witness ==
  \E t \in Tasks :
    /\ tasks[t].pc = "waitSkip"
    /\ sinceTrigger[tasks[t].path] = Never

\* C3 as stated: a key that has never been built is built whenever no build
\* of it is in progress.
C3_NeverBuiltKeyIsBuilt ==
  [][\A t \in Tasks :
       ( /\ Calls(t)
         /\ inProgressBuilds[BuildKey(Src, tasks'[t].path)] = 0
         /\ sinceTrigger[tasks'[t].path] = Never )
       => tasks'[t].pc = "config"
    ]_vars

\* C4 (as amended): a trigger goes on to build if and only if no build of
\* its key is in the in-progress table and the match's last build finished
\* 2 s or more before the trigger (or the match was never built); a trigger
\* that goes on to build starts exactly one build.
C4_BuildsIffIdleAndCooledDown ==
  [][\A t \in Tasks :
       /\ Calls(t)
          => ( tasks'[t].pc = "config"
               <=> /\ inProgressBuilds[BuildKey(Src, tasks'[t].path)] = 0
                   /\ matches[registry].sinceBuild >= Cooldown )
       /\ ( tasks[t].pc = "config" /\ tasks'[t].pc # "config" )
          => /\ Builds(t)
             /\ Cardinality({b \in Tasks : builds'[b].status = "running"})
                  = Cardinality({b \in Tasks : builds[b].status = "running"}) + 1
    ]_vars

\* C4 witness: a trigger that arrived more than 2 s after the previous
\* building trigger for its path has been skipped by the cooldown.
C4_Witness ==
  \E t \in Tasks :
    /\ tasks[t].pc = "waitSkip"
    /\ tasks[t].gap # Never
    /\ tasks[t].gap > Cooldown

\* C4 as stated: a trigger that arrives less than 2 s after the previous
\* building trigger for its path does not build, and one that arrives more
\* than 2 s after it builds.
C4_SpacingOfTriggersDecides ==
  [][\A t \in Tasks :
       ( Calls(t) /\ sinceTrigger[tasks'[t].path] # Never )
       => /\ sinceTrigger[tasks'[t].path] < Cooldown => tasks'[t].pc # "config"
          /\ sinceTrigger[tasks'[t].path] > Cooldown => tasks'[t].pc = "config"
    ]_vars

\* C5: whenever a rebuild of a key that already has a build result is
\* started, the assets of that result are out of the match's buildOutput when
\* the builder is invoked.
C5_OutputsRemovedBeforeRebuild ==
  [][\A t \in Tasks :
       ( Builds(t) /\ tasks[t].path \in matches[tasks[t].match].buildResults )
       => ResultOutput(tasks[t].path)
            \cap matches'[tasks[t].match].buildOutput = {}
    ]_vars

\* C8: no build is made on a build match bound to a version of the builder
\* module older than the one invalidateBuildMatches has installed.
C8_NoBuildOnStaleMatch ==
  [][\A t \in Tasks :
       Builds(t) => matches[tasks[t].match].modVer = moduleVersion
    ]_vars

\* The triggerBuild call of t ends with the exception of the build it awaited.
EndsThrowing(t) == Threw(t) /\ tasks[t].pc # "idle" /\ tasks'[t].pc = "idle"

\* C15 (as amended): when a build started by triggerBuild throws, the call
\* that awaited it leaves no entry for the key in the in-progress table and
\* leaves the build match in the registry; a later triggerBuild for the same
\* key starts a new build unless another build for that key is then in
\* progress or the match's buildTimestamp is less than 2 s old.
C15_RebuildAfterThrowUnlessBusy ==
  [][\A t \in Tasks :
       /\ EndsThrowing(t)
          => /\ inProgressBuilds'[BuildKey(Src, tasks[t].path)] = 0
             /\ registry' = registry /\ registry' # 0
       /\ ( Calls(t) /\ tasks'[t].path \in thrown )
          => ( tasks'[t].pc = "config"
               <=> /\ inProgressBuilds[BuildKey(Src, tasks'[t].path)] = 0
                   /\ matches[registry].sinceBuild >= Cooldown )
    ]_vars

\* C15 witness: a build of a key is running that was started after an
\* earlier build of the same key threw and its call ended.
C15_Witness ==
  \E t \in Tasks :
    /\ tasks[t].pc = "waitOwn"
    /\ tasks[t].path \in thrown
    /\ builds[tasks[t].awaiting].status = "running"

\* C15 as stated: every later triggerBuild for the key of a build that threw
\* starts a new build.
C15_RebuildAfterThrow ==
  [][\A t \in Tasks :
       /\ EndsThrowing(t)
          => /\ inProgressBuilds'[BuildKey(Src, tasks[t].path)] = 0
             /\ registry' = registry /\ registry' # 0
       /\ ( Calls(t) /\ tasks'[t].path \in thrown )
          => tasks'[t].pc = "config"
    ]_vars

\* C29: a triggerBuild call of a filesystem pass made less than 2 s after
\* the match's buildTimestamp, with no build of its key in progress, starts
\* no build and removes no outputs, and when it returns it leaves nothing
\* behind; the outputs of a match change only when a call that was not
\* skipped starts its build or when a build resolves.
C29_CooldownSkipsFsRebuild ==
  [][/\ \A t \in Tasks :
          /\ ( /\ tasks[t].pc = "idle" /\ tasks'[t].pc # "idle"
               /\ tasks'[t].kind = "fs"
               /\ matches[tasks'[t].match].sinceBuild < Cooldown )
               => /\ tasks'[t].pc = "waitSkip"
                  /\ tasks'[t].awaiting = 0
                  /\ matches' = matches
                  /\ builds' = builds
                  /\ inProgressBuilds' = inProgressBuilds
          /\ ( tasks[t].pc = "waitSkip" /\ tasks'[t] # tasks[t] )
               => /\ tasks'[t] = IdleTask
                  /\ matches' = matches
                  /\ builds' = builds
     /\ \A m \in DOMAIN matches :
          matches'[m].buildOutput # matches[m].buildOutput
            => \/ \E t \in Tasks :
                    tasks[t].pc = "config" /\ tasks'[t].pc = "waitOwn"
               \/ \E b \in Tasks :
                    /\ builds[b].status = "running"
                    /\ builds'[b].status = "resolved"]_vars

\* C29 witness: a filesystem pass called triggerBuild for a build result
\* within the cooldown and was skipped; the outputs of the result are still
\* there.
C29_Witness ==
  \E t \in Tasks :
    /\ tasks[t].pc = "waitSkip"
    /\ tasks[t].kind = "fs"
    /\ tasks[t].path \in matches[tasks[t].match].buildOutput
    /\ matches[tasks[t].match].sinceBuild < Cooldown

\* C30: a running build is the entry of its key in the in-progress table,
\* and an entry of the table is a build that is running or one whose caller
\* has not left its try yet.
C30_EntryWhileRunning ==
  /\ \A b \in Tasks :
       builds[b].status = "running"
         => inProgressBuilds[BuildKey(Src, builds[b].path)] = b
  /\ \A key \in BuildKeys :
       inProgressBuilds[key] # 0
         => \/ builds[inProgressBuilds[key]].status = "running"
            \/ \E t \in Tasks :
                 /\ tasks[t].pc = "waitOwn"
                 /\ tasks[t].awaiting = inProgressBuilds[key]

(***************************************************************************)
(* The claims about the blocking-build gate (SpecGate).                    *)
(***************************************************************************)

Outstanding == {b \in DOMAIN blockingBuilds : blockingBuilds[b] = "running"}

\* C6: no request proceeds to routing (devRouter) while a blocking build
\* started by updateBuildMatches is unresolved.
C6_NoRoutingWhileBlockingBuild ==
  [][\A c \in Callers :
       ( callers[c].pc # "routing" /\ callers'[c].pc = "routing" )
       => Outstanding = {}
    ]_vars

\* C7: blockingBuildsPromise is non-null at every moment at which some
\* blocking build started by updateBuildMatches is outstanding.
C7_GateSetWhileBlockingBuild ==
  Outstanding # {} => blockingBuildsPromise # 0

\* The registry's key set and its iteration order describe one map.
OrderMatchesRegistry ==
  /\ {buildMatchesOrder[i] : i \in DOMAIN buildMatchesOrder} = buildMatches
  /\ Len(buildMatchesOrder) = Cardinality(buildMatches)

\* C14: whenever an updateBuildMatches call has returned (and at every other
\* moment a request can iterate the registry), no match using
\* @now/static-build comes before a match of another builder in the
\* registry's iteration order.
C14_StaticBuildLast ==
  /\ OrderMatchesRegistry
  /\ \A i, j \in DOMAIN buildMatchesOrder :
       ( i < j /\ startsWithStaticBuild(Use[buildMatchesOrder[i]]) )
       => startsWithStaticBuild(Use[buildMatchesOrder[j]])

\* The static-build match was added by an earlier call than the other one,
\* or ahead of it by the same call, and both calls have returned.
C14_Witness ==
  /\ buildMatchesOrder = <<"a", "b">>
  /\ callers[1].pc = "done" /\ callers[1].snapshot = {"b"}
  /\ callers[2].pc = "done" /\ callers[2].snapshot = {"a", "b"}
  /\ callers[3].pc = "new"

C16_StopAwaitsBuilds ==
  [][\A s \in StopCalls :
       ( stops[s].pc \notin {"resolved", "returned"}
           /\ stops'[s].pc \in {"resolved", "returned"} )
       => Outstanding = {}
    ]_vars

\* C17: over all stop() calls together, close(this.server) and
\* this.watcher.close() are called at most once and shutdownBuilder at most
\* once per registered match, and stopping, once true, stays true.
C17_StopIdempotent ==
  [][ /\ serverCloses' <= 1
      /\ watcherCloses' <= 1
      /\ \A e \in Entrypoints : builderShutdowns'[e] <= 1
      /\ stopping => stopping'
    ]_vars

\* C17 witness: a second stop() call has returned while the first one, which
\* shut a registered builder down, is still awaiting its promises.
C17_Witness ==
  /\ stops[1].pc = "awaiting"
  /\ stops[2].pc = "returned"
  /\ \E e \in Entrypoints : builderShutdowns[e] = 1

\* C18: a request whose handler begins while stopping is set is answered
\* with a 404 and `Connection: close` in that step, which changes nothing
\* else, and the request takes no further step: no config load, no
\* reconciliation, no routing, no build.
C18_StoppingAnswers404 ==
  [][\A c \in Callers :
       /\ ( stopping /\ callers[c].pc = "new" /\ callers'[c].pc # "new"
               /\ callers'[c].kind = "req" )
          => /\ callers'[c].pc = "closed"
             /\ callers'[c].response = Closing404
             /\ UNCHANGED <<entryFiles, buildMatches, buildMatchesOrder,
                            blockingBuilds, signals, blockingBuildsPromise>>
       /\ callers[c].pc = "closed" => callers'[c] = callers[c]
    ]_vars

\* C18 witness: a request that arrived after stop() was called has its 404,
\* while a request that arrived before is still being handled.
C18_Witness ==
  \E c, d \in Callers :
    /\ callers[c].pc = "closed"
    /\ callers[c].response = Closing404
    /\ InFlight(d)

\* C32: once a stop() call has resolved, no match is added to the registry
\* and no build is started.
C32_NothingAfterStop ==
  [][(\E s \in StopCalls : stops[s].pc = "resolved")
       => /\ buildMatches' \subseteq buildMatches
          /\ Len(blockingBuilds') = Len(blockingBuilds)]_vars

(***************************************************************************)
(* The claims about request serving (SpecServe).                           *)
(***************************************************************************)

\* C19: for every request serveProjectAsNowV2 re-enters itself at most once:
\* the call level never exceeds 1 and at most two calls are made, the second
\* one at level 1, whatever routes the build results declare.
C19_DescentAtMostOnce ==
  \A r \in Requests :
    /\ requests[r].callLevel <= 1
    /\ requests[r].entries <= 2
    /\ requests[r].entries = 2 => requests[r].callLevel = 1

\* C19 witness: a nested call found a matching route among the routes of its
\* build result and, being at level 1, answered instead of descending.
C19_Witness ==
  \E r \in Requests :
    /\ requests[r].callLevel = 1
    /\ requests[r].found
    /\ requests[r].reconciled
    /\ requests[r].pc = "done"

\* C20: whenever devRouter is invoked for a request, on the configured routes
\* or on a build result's routes, the updateBuildMatches call of the
\* serveProjectAsNowV2 call that invokes it has returned.
C20_ReconciledBeforeRouted ==
  \A r \in Requests :
    requests[r].pc \in {"router", "subRouter"} => requests[r].reconciled

\* C20 witness: devRouter is running for a request whose updateBuildMatches
\* call has returned and that then waited for the blocking builds.
C20_Witness ==
  \E r, q \in Requests :
    /\ requests[r].pc = "router" /\ requests[r].reconciled
    /\ requests[q].pc = "gate"

\* C23: every response the server has sent carries server, x-now-trace,
\* x-now-id and x-now-cache: MISS as setResponseHeaders sets them, and
\* cache-control: public, max-age=0, must-revalidate.
C23_StandardHeaders ==
  \A r \in Requests :
    requests[r].pc = "done"
      => /\ requests[r].response.nowHeaders
         /\ requests[r].response.cacheControl = "default"

\* C25: for every request that resolved to a build match, at either call
\* level, if the asset was missing or the request asked for no cache then
\* triggerBuild was called for the request before its response was chosen.
C25_BuildWhenWanted ==
  \A r \in Requests :
    requests[r].wanted /\ requests[r].pc \in {"build", "body", "invoke", "done"}
      => requests[r].builds >= 1

Kept(pathname) ==
  {i \in 1..Len(pathname) :
     ~(i > 1 /\ pathname[i] = "/" /\ pathname[i - 1] = "/")}

Collapsed(pathname) ==
  [j \in 1..Cardinality(Kept(pathname)) |->
     pathname[CHOOSE i \in Kept(pathname) :
                Cardinality({k \in Kept(pathname) : k <= i}) = j]]

\* C24: for a request whose path holds a double slash, a GET is answered 301
\* with Location the collapsed path followed by the query string and goes no
\* further (no reconciliation, routing or build), and any other method has
\* its URL rewritten to that and goes on to the reconciliation unanswered; a
\* path without a double slash goes on with its URL as it was.  Collapsing a
\* collapsed path changes nothing.
C24_DoubleSlash ==
  prologue.pc # "new" =>
    LET clean == Collapsed(prologue.pathname) \o prologue.search
    IN /\ IF includesDoubleSlash(prologue.pathname) /\ prologue.method = "GET"
            THEN /\ prologue.pc = "redirected"
                 /\ prologue.response.status = 301
                 /\ prologue.location = clean
            ELSE /\ prologue.pc = "update"
                 /\ prologue.response = Unanswered
                 /\ prologue.url = clean
       /\ ~includesDoubleSlash(Collapsed(prologue.pathname))
       /\ Collapsed(Collapsed(prologue.pathname)) = Collapsed(prologue.pathname)
       /\ replaceSlashRuns(Collapsed(prologue.pathname))
            = Collapsed(prologue.pathname)

\* C24 witness: a GET of a path with two runs of slashes and a query string
\* that holds slashes was redirected.
C24_Witness ==
  /\ prologue.pc = "redirected"
  /\ prologue.pathname = <<"/", "/", "a", "/", "/">>
  /\ prologue.search = <<"?", "/", "/">>
  /\ prologue.location = <<"/", "a", "/", "?", "/", "/">>

\* C24 witness, other methods: a POST of such a path goes on, rewritten.
C24_WitnessRewritten ==
  /\ prologue.pc = "update"
  /\ prologue.method = "POST"
  /\ prologue.pathname = <<"/", "a", "/", "/", "/">>
  /\ prologue.url = <<"/", "a", "/">>

(***************************************************************************)
(* The claim about the build keys (SpecKeys).                              *)
(***************************************************************************)

\* C27: different (src, requestPath) pairs never share a build key: every
\* triggerBuild call awaits a build of its own pair, never one started for
\* another pair, and a running build has its entry in the in-progress table
\* (no call for another pair has removed it).
C27_KeysNeverShared ==
  /\ \A c \in keyed.calls : c.awaiting = c.pair
  /\ \A b \in keyed.running :
       \E e \in keyed.inProgressBuilds : e.build = b

(***************************************************************************)
(* The claims about getNowConfig (SpecConfig).                             *)
(***************************************************************************)

\* C33: the config object a caller obtained from getNowConfig has its builds
\* and its routes for as long as the caller is in flight.
C33_HeldConfigKeepsBuilds ==
  \A c \in ConfigCalls :
    loader.calls[c].pc = "holding"
      => /\ loader.objects[loader.calls[c].result].builds
         /\ loader.objects[loader.calls[c].result].routes

\* C34: at most one _getNowConfig is in flight at any time, and the config a
\* getNowConfig(false) call returns was read from a now.json at least as
\* new as the one on disk when the call was made.
C34_ReloadReadsDisk ==
  /\ Cardinality({c \in ConfigCalls : loader.calls[c].pc \in
        {"package", "reading", "detecting", "validating"}}) <= 1
  /\ \A c \in ConfigCalls :
       loader.calls[c].pc = "holding" /\ ~loader.calls[c].canUseCache
         => loader.objects[loader.calls[c].result].readAt
              >= loader.calls[c].calledAt

(***************************************************************************)
(* The claim about the match objects (SpecMatches).                        *)
(***************************************************************************)

\* C35: every build match that has left the registry has had shutdown
\* called on its builder, and no match that is in the registry has.
C35_ShutdownIffLeft ==
  /\ \A id \in reconciler.left : reconciler.shutdowns[id] > 0
  /\ \A src \in Entrypoints :
       reconciler.buildMatches[src] # 0
         => reconciler.shutdowns[reconciler.buildMatches[src]] = 0

(***************************************************************************)
(* The claims about start() (SpecStart).                                   *)
(***************************************************************************)

\* C21: until start() has bound the listener at most one build of a
\* blocking match is running at any time, and the listener is bound (and so
\* a request handled) only once every initial build has completed.
C21_InitialBuildsSequential ==
  /\ startPc \in {"building", "watching", "listening"}
       => Cardinality(bootBuilds) <= 1
  /\ startPc \in {"listening", "ready"}
       => /\ bootIndex = Len(InitialBlockingBuilds)
          /\ \A b \in bootBuilds : b.by # "start"

\* C22: the bind loop calls listen() with what start() was given and, after
\* each EADDRINUSE on a number, with the next number; it stops at the first
\* call that does not end in EADDRINUSE on a number: bound to it, or the
\* process exited (named socket in use), or the error rethrown.
C22_BindLoop ==
  LET n == Len(listenAttempts)
      Retried(i) == /\ listenAttempts[i].result = "EADDRINUSE"
                    /\ listenAttempts[i].spec.kind = "number"
  IN
  /\ \A i \in 1..n :
       /\ listenAttempts[i].spec.kind = "number"
            => listenAttempts[i].spec.port = RequestedPort + (i - 1)
       /\ i < n => Retried(i)
  /\ n > 0 =>
       /\ Retried(n) <=> startPc = "listening"
       /\ listenAttempts[n].result = "bound" <=> startPc = "ready"
       /\ ( listenAttempts[n].result = "EADDRINUSE"
               /\ listenAttempts[n].spec.kind = "string" )
            <=> startPc = "exited"
       /\ listenAttempts[n].result = "EACCES" => startPc = "failed"
  /\ startPc = "ready" /\ listenSpec.kind = "number"
       => /\ listenSpec.port = RequestedPort + Cardinality(BusyPorts)
          /\ listenAttempts[n].spec = listenSpec

\* C22 witness: the requested port and the next one were in use and the
\* server is bound to the one after.
C22_Witness ==
  /\ startPc = "ready"
  /\ Len(listenAttempts) = 3
  /\ listenSpec = PortSpec(RequestedPort + 2)

(***************************************************************************)
(* The claims about the filesystem-event aggregator (SpecFs).              *)
(***************************************************************************)

\* The pending list and the timer agree, and every event that has arrived
\* is either pending or was handed to a pass, once, in arrival order.
AggregatorConsistent ==
  /\ watchAggregationId <=> watchAggregationEvents # <<>>
  /\ handed \o Seqs(watchAggregationEvents) = [i \in 1..diskEvents |-> i]

\* C11: the timer is armed iff the pending list is non-empty; no event is
\* lost or delivered twice and events are delivered in arrival order; an
\* event enqueued while the timer is armed leaves the timer as it is; when
\* the timer fires, the whole pending list is handed to exactly one
\* handleFilesystemEvents call and the list is emptied.
C11_DebounceBatches ==
  /\ AggregatorConsistent
  /\ [][ /\ AggregatorConsistent'
         /\ ( watchAggregationId /\ diskEvents' = diskEvents + 1 )
            => /\ watchAggregationId'
               /\ timerLeft' = timerLeft
               /\ passes' = passes
         /\ ( watchAggregationId /\ ~watchAggregationId' )
            => /\ timerLeft = 0
               /\ handed' = handed \o Seqs(watchAggregationEvents)
               /\ watchAggregationEvents' = <<>>
               /\ Cardinality({k \in Passes : passes[k].pc = "idle"
                                              /\ passes'[k].pc # "idle"}) = 1
               /\ \A k \in Passes : passes[k].pc # "idle" => passes'[k] = passes[k]
       ]_vars

\* C11 witness: a pass is working on a batch of which two events or more
\* are still to be handled: several events were handed to one call.
C11_Witness ==
  \E k \in Passes : Len(passes[k].events) >= 2

Quiescent ==
  /\ watchAggregationEvents = <<>>
  /\ ~watchAggregationId
  /\ \A k \in Passes : passes[k].pc = "idle"

\* C28: an event under the distPath of a build result changes nothing: no
\* such path gets into the file index or into the changed and removed sets
\* of a pass, no pass has such an event to handle, and the rebuilds of a
\* pass are those its other events ask for.
C28_DistEventsDropped ==
  /\ files \cap DistFiles = {}
  /\ \A k \in Passes :
       /\ passes[k].changed \cap DistFiles = {}
       /\ passes[k].removed \cap DistFiles = {}
       /\ \A i \in DOMAIN passes[k].events :
            passes[k].events[i].path \notin DistFiles
       /\ passes[k].changed = {} /\ passes[k].removed = {}
            => passes[k].queue = <<>> /\ passes[k].called = <<>>

\* C28 witness: a pass has handled a batch made of events under the
\* distPath only (any other event puts its path into changed or removed)
\* and ends without a rebuild.
C28_Witness ==
  \E k \in Passes :
    /\ passes[k].pc = "done"
    /\ passes[k].changed = {} /\ passes[k].removed = {}
    /\ passes[k].called = <<>>

\* C31: at most one handleFilesystemEvents pass is active at a time: while a
\* pass is suspended at an await (a stat, the configuration and the
\* reconciliation, shouldServe) no pass for a later batch has begun.
C31_OnePassAtATime ==
  Cardinality({k \in Passes :
     passes[k].pc \in {"stat", "statDone", "config", "serve"}}) <= 1

\* C9: after the filesystem batches have been processed, the file index
\* contains p if and only if p is present on disk (and not ignored).
C9_IndexEqualsDisk ==
  Quiescent => files = disk

\* C10: throughout a pass changed and removed are disjoint, and at the end
\* of the pass (when the loop is over and the sets are read) every path in
\* changed is in the file index and no path in removed is.
C10_NetEffect ==
  \A k \in Passes :
    /\ passes[k].changed \cap passes[k].removed = {}
    /\ passes[k].pc = "config"
       => /\ passes[k].changed \subseteq files
          /\ passes[k].removed \cap files = {}

====
